---- MODULE Spec2Model ----
(***************************************************************************)
(* A state-machine model of the emmm parser and expander.                  *)
(*                                                                         *)
(* The recursive-descent parser is modelled with an explicit call stack:   *)
(* every parser function is a frame, every loop iteration or call is one   *)
(* step.  The document tree lives in a heap of nodes addressed by index,   *)
(* as the objects of the program are addressed by reference.               *)
(***************************************************************************)
EXTENDS Integers, Sequences, FiniteSets, TLC

VARIABLES
    src,            \* the source string: a sequence of one-character strings
    pos,            \* Scanner cursor
    heap,           \* all nodes ever allocated; heap[1] is EmitEnvironment.root
    defs,           \* all modifier definition objects ever created
    config,         \* cxt.config: the registries, each a sequence of definition ids
    prefixes,       \* Parser.prefixes: the sorted lookup tables
    blockStack,     \* EmitEnvironment.blockStack
    inlineStack,    \* EmitEnvironment.inlineStack
    referringStack, \* EmitEnvironment.referringStack
    messages,       \* EmitEnvironment.messages
    groupDepth,     \* Parser.groupDepth
    delayDepth,     \* cxt.delayDepth
    store,          \* builtins store: the two delayed slot stacks
    stack,          \* the call stack of the parser; the last frame is running
    ret,            \* the boolean value the last returning function returned
    status,         \* "running" | "done" | "stripped" | "thrown"
    stripped,       \* the root of the Document toStripped returned, 0 before
    hookLog,        \* history: every lifecycle hook invocation, in order
    limitHits,      \* history: how often #reparse refused for depth > limit
    failedRoots,    \* history: depth-0 expansions under which the limit was hit
    loopAdvance,    \* history: every round of the argument and preformatted
                    \* loops that went on moved the cursor
    steps,          \* history: the number of steps taken
    configurations, \* every Configuration object of the host, in order of
                    \* creation; configurations[1] is TestConfig
    cxt,            \* which Configuration the ParseContext holds: config is
                    \* configurations[cxt]
    first,          \* history: what the first call of parse returned
    notes,          \* cxt.get(notes).definitions: the notes store
    fixed           \* what the host got when it applied a fix suggestion

vars == <<src, pos, heap, defs, config, prefixes, blockStack, inlineStack,
          referringStack, messages, groupDepth, delayDepth, store, stack,
          ret, status, stripped, hookLog, limitHits, failedRoots,
          loopAdvance, steps, configurations, cxt, first, notes, fixed>>

---------------------------------------------------------------------------
(* Bounds of the model *)

\* number of source chunks a source string is built from
MaxItems == 3
\* cxt.config.reparseDepthLimit, a scalar of the configuration handed to parse
ReparseDepthLimit == 2

---------------------------------------------------------------------------
(* Lexical tokens *)

GROUP_BEGIN == <<":", "-", "-">>
GROUP_END == <<"-", "-", ":">>
MODIFIER_BLOCK_OPEN == <<"[", ".">>
MODIFIER_CLOSE_SIGN == <<"]">>
MODIFIER_END_SIGN == <<";">>
MODIFIER_INLINE_OPEN == <<"[", "/">>
MODIFIER_INLINE_END_TAG == <<"[", ";", "]">>
MODIFIER_SYSTEM_OPEN == <<"[", "-">>

OpenerOf(type) ==
    CASE type = "block" -> MODIFIER_BLOCK_OPEN
      [] type = "system" -> MODIFIER_SYSTEM_OPEN
      [] OTHER -> MODIFIER_INLINE_OPEN

---------------------------------------------------------------------------
(* Scanner: a cursor over src; positions are 0-based, half-open *)

Last(s) == s[Len(s)]
ButLast(s) == SubSeq(s, 1, Len(s) - 1)

isEOF(p) == p >= Len(src)

peek(s, p) ==
    /\ p + Len(s) <= Len(src)
    /\ SubSeq(src, p + 1, p + Len(s)) = s

\* the cursor after accept(s): advanced exactly when s is a prefix at p
accept(s, p) == IF peek(s, p) THEN p + Len(s) ELSE p

charAt(p) == src[p + 1]

isWhitespaceChar(p) == ~isEOF(p) /\ charAt(p) \in {" ", "\t"}

RECURSIVE acceptWhitespaces(_)
\* while (scanner.acceptWhitespaceChar() !== null) {}
acceptWhitespaces(p) ==
    IF isWhitespaceChar(p) THEN acceptWhitespaces(p + 1) ELSE p

\* the position of the next occurrence of s at or after p, or -1
RECURSIVE indexOf(_, _)
indexOf(s, p) ==
    IF p + Len(s) > Len(src) THEN -1
    ELSE IF peek(s, p) THEN p
    ELSE indexOf(s, p + 1)

\* acceptUntil(s): where the cursor can be afterwards.  When s is found the
\* cursor stops in front of it.  When EOF is hit first the result is null;
\* the cursor is then either where it was or at EOF.
acceptUntilFound(s, p) == indexOf(s, p) >= 0
acceptUntilPositions(s, p) ==
    IF acceptUntilFound(s, p) THEN {indexOf(s, p)} ELSE {p, Len(src)}

RECURSIVE WHITESPACES_OR_NEWLINES(_)
WHITESPACES_OR_NEWLINES(p) ==
    IF isWhitespaceChar(p) \/ peek(<<"\n">>, p)
    THEN WHITESPACES_OR_NEWLINES(p + 1)
    ELSE p

RECURSIVE CountNewlines(_, _)
CountNewlines(p, q) ==
    IF p >= q THEN 0
    ELSE (IF charAt(p) = "\n" THEN 1 ELSE 0) + CountNewlines(p + 1, q)

---------------------------------------------------------------------------
(* Messages *)

Msg(code, position, length, info) ==
    [code |-> code, position |-> position, length |-> length,
     info |-> info, refs |-> <<>>]

ExpectedMessage(position, what) == Msg("Expected", position, Len(what), what)
UnknownModifierMessage(position, length) ==
    Msg("UnknownModifier", position, length, <<>>)
UnclosedInlineModifierMessage(position, what) ==
    Msg("UnclosedInlineModifier", position, 0, what)
UnnecessaryNewlineMessage(position, length) ==
    Msg("UnnecessaryNewline", position, length, <<>>)
NewBlockShouldBeOnNewlineMessage(position) ==
    Msg("NewBlockShouldBeOnNewline", position, 0, <<>>)
ContentShouldBeOnNewlineMessage(position) ==
    Msg("ContentShouldBeOnNewline", position, 0, <<>>)
ReachedReparseLimitMessage(position, length, name) ==
    Msg("ReachedReparseLimit", position, length, name)
InvalidArgumentMessage(position, length) ==
    Msg("InvalidArgument", position, length, <<>>)
NameAlreadyDefinedMessage(position, length, name) ==
    Msg("NameAlreadyDefined", position, length, name)
ArgumentCountMismatchMessage(position, length) ==
    Msg("ArgumentCountMismatch", position, length, <<>>)

\* new ReferredMessage(msg, range.start, range.end - range.start)
ReferredMessage(m, range) == [m EXCEPT !.refs = Append(@, range)]

RECURSIVE WrapReferred(_, _)
\* a variant of WrapReferred that wraps for the innermost site only
WrapReferred_innermost(m, referringReverse) ==
    IF referringReverse = <<>> THEN m
    ELSE ReferredMessage(m, Head(referringReverse))

\* for (const range of referringReverse) msg = new ReferredMessage(msg, ...)
WrapReferred(m, referringReverse) ==
    IF referringReverse = <<>> THEN m
    ELSE WrapReferred(ReferredMessage(m, Head(referringReverse)),
                      Tail(referringReverse))

Reverse(s) == [i \in 1..Len(s) |-> s[Len(s) + 1 - i]]

RECURSIVE WrapAll(_, _)
WrapAll(ms, referring) ==
    IF ms = <<>> THEN <<>>
    ELSE <<WrapReferred(Head(ms), Reverse(referring))>>
         \o WrapAll(Tail(ms), referring)

\* a variant of pushReferring that pushes nothing
pushReferring_skip(referring, start, end) == referring

\* EmitEnvironment.pushReferring(start, end): the referral stack afterwards
pushReferring(referring, start, end) ==
    Append(referring, [start |-> start, end |-> end])

\* EmitEnvironment.message(...m): the message list after the call
message(msgs, referring, ms) == msgs \o WrapAll(ms, referring)

---------------------------------------------------------------------------
(* Modifier definitions and the configuration *)

NameA == <<"a">>
NameAB == <<"a", "b">>
NameR == <<"r">>
NameD == <<"d">>
NameP == <<"p">>
NameX == <<"x">>
NameGetVar == <<"$">>
NamePrint == <<"p", "r", "i", "n", "t">>
NameH == <<"h">>
NameNoteInline == <<"n", "o", "t", "e", "-", "i", "n", "l", "i", "n", "e">>
NameNote == <<"n", "o", "t", "e">>
NameUnknown == <<"U", "N", "K", "N", "O", "W", "N">>
NameDefineBlock == <<"d", "e", "f", "i", "n", "e", "-", "b", "l", "o", "c", "k">>
NameBlockShorthand ==
    <<"b", "l", "o", "c", "k", "-", "s", "h", "o", "r", "t", "h", "a", "n", "d">>
NameInlineShorthand ==
    <<"i", "n", "l", "i", "n", "e", "-", "s", "h", "o", "r", "t", "h", "a", "n", "d">>
\* the names customModifier is given for the modifier of a shorthand
NameOfBlockShorthandMod ==
    <<"<", "b", "l", "o", "c", "k", " ", "s", "h", "o", "r", "t", "h", "a", "n", "d", ">">>
NameOfInlineShorthandMod ==
    <<"<", "i", "n", "l", "i", "n", "e", " ", "s", "h", "o", "r", "t", "h", "a", "n", "d", ">">>

\* a ModifierBase object: name, flags, the two expansion booleans and the
\* lifecycle hooks it carries (hooks names the family of hook functions);
\* body is the content a custom modifier captured, args its argument names
Definition(name, kind, flags, hooks) ==
    [name |-> name, kind |-> kind, flags |-> flags,
     delayContentExpansion |-> FALSE, alwaysTryExpand |-> FALSE,
     hooks |-> hooks, body |-> <<>>, args |-> <<>>]

\* the reserved definitions substituted when no name matches
UnknownModifier(type) ==
    CASE type = "block" -> 1
      [] type = "inline" -> 2
      [] OTHER -> 3

\* define-block: delayContentExpansion and alwaysTryExpand
DefineBlockMod ==
    [Definition(NameDefineBlock, "system", "Normal", "define-block")
        EXCEPT !.delayContentExpansion = TRUE, !.alwaysTryExpand = TRUE]

\* block-shorthand and inline-shorthand: delayContentExpansion and
\* alwaysTryExpand
DefineBlockShorthandMod ==
    [Definition(NameBlockShorthand, "system", "Normal", "block-shorthand")
        EXCEPT !.delayContentExpansion = TRUE, !.alwaysTryExpand = TRUE]

DefineInlineShorthandMod ==
    [Definition(NameInlineShorthand, "system", "Normal", "inline-shorthand")
        EXCEPT !.delayContentExpansion = TRUE, !.alwaysTryExpand = TRUE]

\* note-inline and the block note
noteInline == Definition(NameNoteInline, "inline", "Normal", "note-inline")
noteBlock == Definition(NameNote, "block", "Normal", "note-block")

\* what a host may register: a plain block, a block whose expand hook
\* returns an invocation of itself, blocks and inlines that delay the
\* expansion of their content, a preformatted block; and the builtins: the
\* definitions of modifiers and shorthands, '$' and 'print'; a block of the
\* host that has every hook, its expand hook returning the content of the
\* node; and the notes
InitDefs ==
    << Definition(NameUnknown, "block", "Normal", "none"),
       Definition(NameUnknown, "inline", "Normal", "none"),
       Definition(NameUnknown, "system", "Normal", "none"),
       Definition(NameA, "block", "Normal", "none"),
       Definition(NameR, "block", "Normal", "rec"),
       [Definition(NameD, "block", "Normal", "none")
           EXCEPT !.delayContentExpansion = TRUE],
       Definition(NameP, "block", "Preformatted", "none"),
       [Definition(NameD, "inline", "Normal", "none")
           EXCEPT !.delayContentExpansion = TRUE],
       DefineBlockMod,
       Definition(NameP, "inline", "Preformatted", "none"),
       DefineBlockShorthandMod,
       DefineInlineShorthandMod,
       Definition(NameGetVar, "inline", "Marker", "getvar"),
       Definition(NamePrint, "inline", "Marker", "print"),
       Definition(NameH, "block", "Normal", "trace"),
       noteInline,
       noteBlock >>

\* argument interpolators of the configuration: opener and postfix
Interpolators ==
    << [name |-> <<"$">>, postfix |-> <<")">>],
       [name |-> <<"$", "(">>, postfix |-> <<")">>] >>

Entry(d) == <<InitDefs[d].name, d>>

\* the registries in insertion order, as Map.entries() yields them
InitConfig ==
    [blockModifiers |-> <<Entry(4), Entry(5), Entry(6), Entry(7), Entry(15),
                          Entry(17)>>,
     inlineModifiers |-> <<Entry(8), Entry(10), Entry(13), Entry(14),
                           Entry(16)>>,
     systemModifiers |-> <<Entry(9), Entry(11), Entry(12)>>,
     argumentInterpolators |->
        <<<<Interpolators[1].name, 1>>, <<Interpolators[2].name, 2>>>>,
     blockShorthands |-> <<>>,
     inlineShorthands |-> <<>>]

\* Configuration.from(other) on the object configurations[id] with no copy
\* made: the object itself
from_same(cs, id) == [configurations |-> cs, id |-> id]

\* Configuration.from(other) on the object cs[id]: a new Configuration whose
\* registries and shorthand sets are copies that hold the same definitions
from(cs, id) == [configurations |-> Append(cs, cs[id]), id |-> Len(cs) + 1]

RegistryOf(cfg, type) ==
    CASE type = "block" -> cfg.blockModifiers
      [] type = "inline" -> cfg.inlineModifiers
      [] OTHER -> cfg.systemModifiers

RECURSIVE MaxNameLength(_)
MaxNameLength(entries) ==
    IF entries = <<>> THEN 0
    ELSE LET m == MaxNameLength(Tail(entries))
             l == Len(Head(entries)[1])
         IN  IF l > m THEN l ELSE m

RECURSIVE EntriesFromLength(_, _)
EntriesFromLength(entries, k) ==
    IF k < 0 THEN <<>>
    ELSE SelectSeq(entries, LAMBDA e : Len(e[1]) = k)
         \o EntriesFromLength(entries, k - 1)

\* a variant of SortEntries that keeps the insertion order
SortEntries_unsorted(entries) == entries

\* [...entries].sort(([x, _], [y, __]) => y.length - x.length): a stable
\* sort by descending name length
SortEntries(entries) == EntriesFromLength(entries, MaxNameLength(entries))

\* Parser.#sortModifiers: the prefix tables for a configuration
sortModifiers(cfg) ==
    [block |-> SortEntries(cfg.blockModifiers),
     inline |-> SortEntries(cfg.inlineModifiers),
     system |-> SortEntries(cfg.systemModifiers),
     interpolator |-> SortEntries(cfg.argumentInterpolators)]

PrefixesOf(pfx, type) ==
    CASE type = "block" -> pfx.block
      [] type = "inline" -> pfx.inline
      [] OTHER -> pfx.system

RECURSIVE FindAccepted(_, _)
\* entries.find(([name, _]) => this.scanner.accept(name)): the first entry
\* whose name is a prefix at p, or <<>> when there is none
FindAccepted(entries, p) ==
    IF entries = <<>> THEN <<>>
    ELSE IF peek(Head(entries)[1], p) THEN Head(entries)
    ELSE FindAccepted(Tail(entries), p)

---------------------------------------------------------------------------
(* Arguments *)

EmptyArg == [start |-> 0, end |-> 0, content |-> <<>>]

ArgEntity(type, content, start, end) ==
    [type |-> type, content |-> content, start |-> start, end |-> end,
     definition |-> 0, arg |-> EmptyArg]

\* emitString inside ARGUMENT_CONTENT; p is scanner.position()
emitString(content, s, p) ==
    IF content # <<>> /\ Last(content).type = "text"
    THEN [content EXCEPT ![Len(content)] =
            [@ EXCEPT !.content = @ \o s, !.end = @ + Len(s)]]
    ELSE Append(content, ArgEntity("text", s, p - Len(s), p))

ArgResult(posStart, posEnd, content, ok, p, msgs, adv) ==
    [arg |-> [start |-> posStart, end |-> posEnd, content |-> content],
     ok |-> ok, pos |-> p, msgs |-> msgs, adv |-> adv]

RECURSIVE ARGUMENT_CONTENT(_, _, _)
RECURSIVE ArgumentContentLoop(_, _, _, _, _, _, _, _)
\* one iteration of the while (true) of ARGUMENT_CONTENT and all that follow
ArgumentContentLoop(hasEnd, end, content, posStart, posEnd, p, msgs, adv) ==
    IF hasEnd /\ peek(end, p)
    THEN ArgResult(posStart, posEnd, content, TRUE, accept(end, p), msgs, adv)
    ELSE IF peek(<<":">>, p)
    THEN ArgResult(posStart, posEnd, content, ~hasEnd, p + 1, msgs, adv)
    ELSE IF peek(MODIFIER_END_SIGN, p) \/ peek(MODIFIER_CLOSE_SIGN, p) \/ isEOF(p)
    THEN ArgResult(posStart, posEnd, content, FALSE, p, msgs, adv)
    ELSE IF peek(<<"\\">>, p)
    THEN LET p1 == p + 1
         IN  IF isEOF(p1)
             THEN ArgResult(posStart, p1, emitString(content, <<"\\">>, p1),
                            FALSE, p1, msgs, adv)
             ELSE ArgumentContentLoop(hasEnd, end,
                    Append(content,
                        ArgEntity("escaped", <<charAt(p1)>>, p1 - 2, p1)),
                    posStart, p1, p1 + 1, msgs, adv /\ p1 + 1 > p)
    ELSE LET result == FindAccepted(prefixes.interpolator, p)
         IN  IF result # <<>>
             THEN LET def == Interpolators[result[2]]
                      inner == ARGUMENT_CONTENT(TRUE, def.postfix,
                                                p + Len(result[1]))
                      pe == inner.pos
                      node == [ArgEntity("interp", <<>>, pe - 2, pe)
                                 EXCEPT !.definition = result[2],
                                        !.arg = inner.arg]
                      content1 == Append(content, node)
                  IN  IF ~inner.ok
                      THEN ArgResult(posStart, pe, content1, FALSE, pe,
                             msgs \o inner.msgs
                                  \o <<ExpectedMessage(pe, def.postfix)>>,
                             adv /\ inner.adv)
                      ELSE ArgumentContentLoop(hasEnd, end, content1,
                             posStart, pe, pe, msgs \o inner.msgs,
                             adv /\ inner.adv /\ pe > p)
             ELSE ArgumentContentLoop(hasEnd, end,
                    emitString(content, <<charAt(p)>>, p + 1),
                    posStart, p + 1, p + 1, msgs, adv /\ p + 1 > p)

\* ARGUMENT_CONTENT(end?): the argument read from p on, whether it ended
\* with a separator (ok), the cursor afterwards and the messages emitted
ARGUMENT_CONTENT(hasEnd, end, p) ==
    ArgumentContentLoop(hasEnd, end, <<>>, p, p, p, <<>>, TRUE)

RECURSIVE ArgumentsLoop(_, _, _, _, _)
\* the while (!end) of ARGUMENTS
ArgumentsLoop(list, firstSemicolon, p, msgs, adv) ==
    LET r == ARGUMENT_CONTENT(FALSE, <<>>, p)
    IN  IF ~r.ok
        THEN [list |-> IF list = <<>> /\ r.arg.content = <<>> /\ ~firstSemicolon
                       THEN list ELSE Append(list, r.arg),
              pos |-> r.pos, msgs |-> msgs \o r.msgs, adv |-> adv /\ r.adv]
        ELSE ArgumentsLoop(Append(list, r.arg), firstSemicolon, r.pos,
                           msgs \o r.msgs, adv /\ r.adv /\ r.pos > p)

\* a variant of ARGUMENTS that takes a first ':' for no more than the
\* whitespace before the first argument
ARGUMENTS_noFirst(p) ==
    LET firstSemicolon == peek(<<":">>, p)
        p1 == IF firstSemicolon THEN p + 1 ELSE WHITESPACES_OR_NEWLINES(p)
    IN  ArgumentsLoop(<<>>, FALSE, p1, <<>>, TRUE)

\* ARGUMENTS(): the argument list of a modifier head read from p on
ARGUMENTS(p) ==
    LET firstSemicolon == peek(<<":">>, p)
        p1 == IF firstSemicolon THEN p + 1 ELSE WHITESPACES_OR_NEWLINES(p)
    IN  ArgumentsLoop(<<>>, firstSemicolon, p1, <<>>, TRUE)

RECURSIVE ConcatContents(_)
ConcatContents(content) ==
    IF content = <<>> THEN <<>>
    ELSE Head(content).content \o ConcatContents(Tail(content))

\* the cached textual value of an argument: defined when the argument holds
\* no interpolation (the interpolators of this configuration have no expand)
ArgumentExpansion(arg) ==
    IF \E i \in 1..Len(arg.content) : arg.content[i].type = "interp"
    THEN [defined |-> FALSE, value |-> <<>>]
    ELSE [defined |-> TRUE, value |-> ConcatContents(arg.content)]

---------------------------------------------------------------------------
(* Nodes and the emit environment *)

\* node.state of the definition modifiers, undefined (defined = FALSE) at
\* first: name, args (define-block), slotName with whether it is defined,
\* parts (pairs of
\* argument name and part literal), postfix, msgs, definition
Undefined == [defined |-> FALSE, value |-> <<>>]

NoState == [defined |-> FALSE, name |-> Undefined, args |-> <<>>,
            slotName |-> <<>>, slotDefined |-> FALSE, parts |-> <<>>,
            postfix |-> Undefined, msgs |-> <<>>, definition |-> <<>>]

\* a document node; content and expansion hold node ids.  expanded tells
\* whether expansion is defined.  marker, nameStart, registered and generated
\* are history: whether the node was added without a content parse, where
\* its name was looked up, which names the live registry held at that
\* lookup, and whether an expand hook (not the parser) created it; origin is
\* history too: the node a copy was cloned from, 0 for a node that is no copy;
\* shorthand tells whether the node stands for the use of a shorthand.
NewNode(type, start, end) ==
    [type |-> type, mod |-> 0, start |-> start, end |-> end,
     headEnd |-> start, arguments |-> <<>>, content |-> <<>>, text |-> <<>>,
     contentStart |-> 0, contentEnd |-> 0,
     expanded |-> FALSE, expansion |-> <<>>, state |-> NoState,
     marker |-> FALSE, nameStart |-> 0, registered |-> {}, generated |-> FALSE,
     origin |-> 0, shorthand |-> FALSE]

RootNode == NewNode("root", 0, -1)

IsModifier(n) == n.type \in {"block", "inline", "system"}
IsLeaf(n) == n.type \in {"pre", "text", "escaped"}

\* addBlockNode / addInlineNode: push id onto the content of the stack's top
addNode(h, stk, id) == [h EXCEPT ![Last(stk)].content = Append(@, id)]

\* EmitEnvironment.addString(str) with the cursor at p: the heap afterwards
addString(h, istk, str, p) ==
    LET parent == Last(istk)
        content == h[parent].content
    IN  IF content # <<>> /\ h[Last(content)].type = "text"
        THEN [h EXCEPT ![Last(content)].text = @ \o str,
                       ![Last(content)].end = p]
        ELSE LET id == Len(h) + 1
                 node == [NewNode("text", p - Len(str), p) EXCEPT !.text = str]
             IN  addNode(Append(h, node), istk, id)

\* endBlock / endInline: node.end = scanner.position()
endNode(h, stk, p) == [h EXCEPT ![Last(stk)].end = p]

---------------------------------------------------------------------------
(* cloneNode / cloneNodes *)

RECURSIVE cloneNode(_, _)
RECURSIVE cloneNodes(_, _)
\* a variant of cloneNode that hands back the node itself
cloneNode_alias(h, id) == [heap |-> h, ids |-> <<id>>]

\* the heap with a deep copy of node id appended, and the id of the copy
cloneNode(h, id) ==
    LET n == h[id]
    IN  IF IsModifier(n)
        THEN LET c == cloneNodes(h, n.content)
                 e == IF n.expanded /\ n.expansion # <<>>
                      THEN cloneNodes(c.heap, n.expansion)
                      ELSE [heap |-> c.heap, ids |-> <<>>]
                 copy == [n EXCEPT !.state = NoState, !.content = c.ids,
                                   !.expansion = e.ids, !.generated = TRUE,
                                   !.origin = id]
             IN  [heap |-> Append(e.heap, copy), ids |-> <<Len(e.heap) + 1>>]
        ELSE IF n.type \in {"root", "paragraph"}
        THEN LET c == cloneNodes(h, n.content)
                 copy == [n EXCEPT !.content = c.ids, !.generated = TRUE,
                               !.origin = id]
             IN  [heap |-> Append(c.heap, copy), ids |-> <<Len(c.heap) + 1>>]
        ELSE [heap |-> Append(h, [n EXCEPT !.generated = TRUE, !.origin = id]),
              ids |-> <<Len(h) + 1>>]

cloneNodes(h, ids) ==
    IF ids = <<>> THEN [heap |-> h, ids |-> <<>>]
    ELSE LET a == cloneNode(h, Head(ids))
             b == cloneNodes(a.heap, Tail(ids))
         IN  [heap |-> b.heap, ids |-> a.ids \o b.ids]

---------------------------------------------------------------------------
(* stripDocument *)

RECURSIVE stripNode(_, _)
RECURSIVE stripNodes(_, _)
\* a variant of stripNode that drops a modifier without expansion
stripNode_drop(h, id) ==
    LET n == h[id]
    IN  IF IsLeaf(n) THEN [heap |-> h, out |-> <<id>>]
        ELSE IF n.type \in {"block", "inline"} /\ n.expanded
        THEN stripNodes(h, n.expansion)
        ELSE IF n.type \in {"paragraph", "root"}
        THEN LET r == stripNodes(h, n.content)
             IN  [heap |-> [r.heap EXCEPT ![id].content = r.out],
                  out |-> <<id>>]
        ELSE [heap |-> h, out |-> <<>>]

\* a variant of stripNode that keeps system modifiers
stripNode_keepSystem(h, id) ==
    LET n == h[id]
    IN  IF IsLeaf(n) THEN [heap |-> h, out |-> <<id>>]
        ELSE IF n.type \in {"block", "inline"} /\ n.expanded
        THEN stripNodes(h, n.expansion)
        ELSE LET r == stripNodes(h, n.content)
             IN  [heap |-> [r.heap EXCEPT ![id].content = r.out],
                  out |-> <<id>>]

\* stripNode(node): the heap after the in-place rewrite and the nodes that
\* stand for the node in its parent
stripNode(h, id) ==
    LET n == h[id]
    IN  IF IsLeaf(n) THEN [heap |-> h, out |-> <<id>>]
        ELSE IF n.type \in {"block", "inline"} /\ n.expanded
        THEN stripNodes(h, n.expansion)
        ELSE IF n.type \in {"block", "inline", "paragraph", "root"}
        THEN LET r == stripNodes(h, n.content)
             IN  [heap |-> [r.heap EXCEPT ![id].content = r.out],
                  out |-> <<id>>]
        ELSE [heap |-> h, out |-> <<>>]

\* nodes.flatMap((x) => stripNode(x))
stripNodes(h, ids) ==
    IF ids = <<>> THEN [heap |-> h, out |-> <<>>]
    ELSE LET a == stripNode(h, Head(ids))
             b == stripNodes(a.heap, Tail(ids))
         IN  [heap |-> b.heap, out |-> a.out \o b.out]

\* stripDocument(doc): doc.root = stripNode(doc.root)[0], for the document
\* whose root is node root: the heap and the root afterwards
stripDocument(h, root) ==
    LET r == stripNode(h, root)
    IN  [heap |-> r.heap, root |-> r.out[1]]

---------------------------------------------------------------------------
(* Registries of the configuration *)

has(entries, name) == \E i \in 1..Len(entries) : entries[i][1] = name
remove(entries, name) == SelectSeq(entries, LAMBDA e : e[1] # name)
\* entries are indexed by name: an entry added under a name the registry
\* holds takes the place of the one it holds
add(entries, name, d) ==
    IF has(entries, name)
    THEN [i \in 1..Len(entries) |->
            IF entries[i][1] = name THEN <<name, d>> ELSE entries[i]]
    ELSE Append(entries, <<name, d>>)

\* the builtins store of a new ParseContext
InitStore ==
    [blockSlotDelayedStack |-> <<>>, inlineSlotDelayedStack |-> <<>>,
     instantiation |-> <<>>]

---------------------------------------------------------------------------
(* Lifecycle hooks *)

\* if (node.mod.delayContentExpansion) this.cxt.delayDepth++
EnterDelay(d, dd) == IF d.delayContentExpansion THEN dd + 1 ELSE dd

\* a variant of LeaveDelay that forgets the decrement
LeaveDelay_keep(d, dd) == dd

\* if (node.mod.delayContentExpansion) this.cxt.delayDepth--
LeaveDelay(d, dd) == IF d.delayContentExpansion THEN dd - 1 ELSE dd

HooksOf(d) ==
    CASE d.hooks \in {"define-block", "block-shorthand", "inline-shorthand"} ->
            {"beforeParseContent", "afterParseContent", "prepareExpand", "expand"}
      [] d.hooks = "custom" -> {"expand"}
      [] d.hooks \in {"rec", "getvar", "print"} -> {"expand"}
      [] d.hooks = "trace" ->
            {"beforeParseContent", "afterParseContent", "prepareExpand",
             "expand", "beforeProcessExpansion", "afterProcessExpansion"}
      [] d.hooks \in {"note-inline", "note-block"} ->
            {"prepareExpand", "afterProcessExpansion"}
      [] OTHER -> {}

LogEntry(hook, id, depth, dd, imm) ==
    [hook |-> hook, node |-> id, depth |-> depth, delayDepth |-> dd,
     immediate |-> imm]

\* hookLog after hook ran on node id, when the definition has that hook
Logged(log, d, hook, id, depth, dd, imm) ==
    IF hook \in HooksOf(d) THEN Append(log, LogEntry(hook, id, depth, dd, imm))
    ELSE log

\* /^\(.+\)$/.test(s) ? s.substring(1, s.length - 1) : ''
SlotNameOf(s) ==
    IF Len(s) >= 3 /\ s[1] = "(" /\ s[Len(s)] = ")"
    THEN SubSeq(s, 2, Len(s) - 1) ELSE <<>>

\* the number Infinity: above the number of arguments of any node
Infinity == Len(src) + 1

\* checkArgumentLength(node, min, max): the messages, <<>> when in range
checkArgumentLength(node, min, max) ==
    IF Len(node.arguments) < min \/ Len(node.arguments) > max
    THEN <<ArgumentCountMismatchMessage(node.start, node.headEnd - node.start)>>
    ELSE <<>>

\* an entry of a delayed slot stack: define-block pushes the slot name (a
\* string), the shorthand definitions push a signature { slotName, args }
SlotEntry(kind, slotName, args) ==
    [kind |-> kind, slotName |-> slotName, args |-> args]

\* DefineBlockMod.beforeParseContent: the node (its state), the store and
\* the messages returned
DefineBlockBeforeParseContent(node, st) ==
    LET check == checkArgumentLength(node, 1, Infinity)
    IN  IF check # <<>>
        THEN [node |-> node, store |-> st, msgs |-> check]
        ELSE LET nameValue == ArgumentExpansion(node.arguments[1])
                 last == ArgumentExpansion(Last(node.arguments))
                 slotName == IF Len(node.arguments) > 1 /\ last.defined
                             THEN SlotNameOf(last.value) ELSE <<>>
                 argsEnd == IF slotName # <<>> THEN Len(node.arguments) - 1
                            ELSE Len(node.arguments)
                 args == [i \in 1..(argsEnd - 1) |->
                            ArgumentExpansion(node.arguments[i + 1]).value]
                 state == [NoState EXCEPT !.defined = TRUE,
                              !.name = nameValue, !.args = args,
                              !.slotName = slotName, !.slotDefined = TRUE]
             IN  [node |-> [node EXCEPT !.state = state],
                  store |-> [st EXCEPT !.blockSlotDelayedStack =
                                Append(@, SlotEntry("string", slotName, <<>>))],
                  msgs |-> <<>>]

\* DefineBlockMod.afterParseContent: the store afterwards and whether its
\* assertion held
DefineBlockAfterParseContent(node, st) ==
    LET slots == st.blockSlotDelayedStack
    IN  IF ~node.state.defined THEN [store |-> st, asserted |-> TRUE]
        ELSE IF slots = <<>> THEN [store |-> st, asserted |-> FALSE]
        ELSE [store |-> [st EXCEPT !.blockSlotDelayedStack = ButLast(slots)],
              asserted |-> /\ Last(slots).kind = "string"
                           /\ Last(slots).slotName = node.state.slotName]

\* a name is truthy when it is defined and not the empty string
Truthy(name) == name.defined /\ name.value # <<>>

\* a variant of DefineBlockMod.prepareExpand without the registry lookup
DefineBlockPrepareExpand_noLookup(node, cfg, immediate) ==
    IF ~immediate \/ ~node.state.defined THEN <<>>
    ELSE IF ~Truthy(node.state.name)
    THEN <<InvalidArgumentMessage(node.arguments[1].start,
              node.arguments[1].end - node.arguments[1].start)>>
    ELSE <<>>

\* DefineBlockMod.prepareExpand: the messages returned
DefineBlockPrepareExpand(node, cfg, immediate) ==
    IF ~immediate \/ ~node.state.defined THEN <<>>
    ELSE LET arg == node.arguments[1]
         IN  IF ~Truthy(node.state.name)
             THEN <<InvalidArgumentMessage(arg.start, arg.end - arg.start)>>
             ELSE IF has(cfg.blockModifiers, node.state.name.value)
             THEN <<NameAlreadyDefinedMessage(arg.start, arg.end - arg.start,
                                              node.state.name.value)>>
             ELSE <<>>

\* customModifier(type, name, flags, args, slotName, content): a modifier
\* whose expansion is a copy of the captured content
customModifier(type, name, flags, args, content) ==
    [Definition(name, type, flags, "custom")
        EXCEPT !.body = content, !.args = args]

ExpandResult(defined, ids, h, ds, cfg) ==
    [defined |-> defined, expansion |-> ids, heap |-> h, defs |-> ds,
     config |-> cfg]

\* a variant of DefineBlockMod.expand that keeps a definition the registry
\* holds
DefineBlockExpand_keepOld(node, h, ds, cfg, immediate) ==
    IF ~immediate THEN ExpandResult(FALSE, <<>>, h, ds, cfg)
    ELSE IF node.state.defined /\ Truthy(node.state.name)
            /\ ~has(cfg.blockModifiers, node.state.name.value)
    THEN ExpandResult(TRUE, <<>>, h,
            Append(ds, customModifier("block", node.state.name.value,
                                      "Normal", node.state.args,
                                      node.content)),
            [cfg EXCEPT !.blockModifiers =
                add(@, node.state.name.value, Len(ds) + 1)])
    ELSE ExpandResult(TRUE, <<>>, h, ds, cfg)

\* DefineBlockMod.expand
DefineBlockExpand(node, h, ds, cfg, immediate) ==
    IF ~immediate THEN ExpandResult(FALSE, <<>>, h, ds, cfg)
    ELSE IF node.state.defined /\ Truthy(node.state.name)
    THEN LET name == node.state.name.value
             removed == IF has(cfg.blockModifiers, name)
                        THEN remove(cfg.blockModifiers, name)
                        ELSE cfg.blockModifiers
             ds1 == Append(ds, customModifier("block", name, "Normal",
                                              node.state.args, node.content))
             cfg1 == [cfg EXCEPT !.blockModifiers = add(removed, name, Len(ds1))]
         IN  ExpandResult(TRUE, <<>>, h, ds1, cfg1)
    ELSE ExpandResult(TRUE, <<>>, h, ds, cfg)

---------------------------------------------------------------------------
(* block-shorthand and inline-shorthand *)

\* checkArguments(node, min, max): the messages, <<>> when every argument
\* has a value and their number is in range
checkArguments(node, min, max) ==
    IF \E i \in 1..Len(node.arguments) :
            ~ArgumentExpansion(node.arguments[i]).defined
    THEN LET i == CHOOSE i \in 1..Len(node.arguments) :
                    /\ ~ArgumentExpansion(node.arguments[i]).defined
                    /\ \A k \in 1..(i - 1) :
                            ArgumentExpansion(node.arguments[k]).defined
         IN  <<InvalidArgumentMessage(node.arguments[i].start,
                    node.arguments[i].end - node.arguments[i].start)>>
    ELSE checkArgumentLength(node, min, max)

\* /^\((.*)\)$/.exec(s): whether s matches, and match[1]
IsSlot(s) == Len(s) >= 2 /\ s[1] = "(" /\ s[Len(s)] = ")"
SlotOf(s) == SubSeq(s, 2, Len(s) - 1)

\* the value of argument number i (from 0) of node
ArgValue(node, i) == ArgumentExpansion(node.arguments[i + 1]).value

DefineArguments(i, slotDefined, slotName, parts, postfix, msgs) ==
    [i |-> i, slotDefined |-> slotDefined, slotName |-> slotName,
     parts |-> parts, postfix |-> postfix, msgs |-> msgs]

RECURSIVE ParseDefineLoop(_, _, _, _)
\* the while (i < node.arguments.length) of parseDefineArguments from i on
ParseDefineLoop(type, node, i, parts) ==
    LET n == Len(node.arguments)
        mismatch == <<ArgumentCountMismatchMessage(node.start, node.end)>>
    IN  IF i >= n
        THEN DefineArguments(i, FALSE, <<>>, parts, Undefined, <<>>)
        ELSE IF IsSlot(ArgValue(node, i))
        THEN IF type # "inline"
             THEN DefineArguments(i + 1, TRUE, SlotOf(ArgValue(node, i)),
                                  parts, Undefined, <<>>)
             ELSE IF i + 1 >= n
             THEN DefineArguments(i + 1, TRUE, SlotOf(ArgValue(node, i)),
                                  parts, Undefined, mismatch)
             ELSE IF ArgValue(node, i + 1) = <<>>
             THEN DefineArguments(i + 1, TRUE, SlotOf(ArgValue(node, i)),
                        parts, Undefined,
                        <<InvalidArgumentMessage(node.arguments[i + 2].start,
                                                 node.arguments[i + 2].end)>>)
             ELSE DefineArguments(i + 2, TRUE, SlotOf(ArgValue(node, i)),
                        parts,
                        [defined |-> TRUE, value |-> ArgValue(node, i + 1)],
                        <<>>)
        ELSE IF i + 1 < n
        THEN ParseDefineLoop(type, node, i + 2,
                Append(parts, <<ArgValue(node, i), ArgValue(node, i + 1)>>))
        ELSE DefineArguments(i + 1, FALSE, <<>>, parts, Undefined, mismatch)

\* the messages of parseDefineArguments after its loop stopped at r.i
DefineArgumentsRest(node, r) ==
    IF r.i = Len(node.arguments) - 1
    THEN IF ArgValue(node, r.i) # <<>>
         THEN <<InvalidArgumentMessage(node.arguments[r.i + 1].start,
                                       node.arguments[r.i + 1].end)>>
         ELSE <<>>
    ELSE IF r.i < Len(node.arguments) - 1
    THEN <<ArgumentCountMismatchMessage(node.start, node.end)>>
    ELSE <<>>

\* the state parseDefineArguments gives the node, from what its loop found
ShorthandState(node, r) ==
    [NoState EXCEPT !.defined = TRUE,
        !.name = ArgumentExpansion(node.arguments[1]),
        !.slotName = r.slotName, !.slotDefined = r.slotDefined,
        !.parts = r.parts, !.postfix = r.postfix,
        !.msgs = r.msgs \o DefineArgumentsRest(node, r)]

\* the argument names of parts
ArgNames(parts) == [i \in 1..Len(parts) |-> parts[i][1]]
\* the part literals of parts
PartLiterals(parts) == [i \in 1..Len(parts) |-> parts[i][2]]

\* a variant of PushSignature that pushes for every definition
PushSignature_always(slots, state) ==
    Append(slots, SlotEntry("signature", state.slotName, ArgNames(state.parts)))

\* if (slotName !== undefined) stack.push({ slotName, args })
PushSignature(slots, state) ==
    IF state.slotDefined
    THEN Append(slots, SlotEntry("signature", state.slotName,
                                 ArgNames(state.parts)))
    ELSE slots

\* parseDefineArguments(type, node, stack): the node (its state), the stack
\* and the messages returned
parseDefineArguments(type, node, slots) ==
    IF checkArguments(node, 1, Infinity) # <<>>
    THEN [node |-> node, stack |-> slots,
          msgs |-> checkArguments(node, 1, Infinity)]
    ELSE [node |-> [node EXCEPT !.state =
                      ShorthandState(node, ParseDefineLoop(type, node, 1, <<>>))],
          stack |-> PushSignature(slots,
                      ShorthandState(node, ParseDefineLoop(type, node, 1, <<>>))),
          msgs |-> <<>>]

\* DefineBlockShorthandMod.beforeParseContent / DefineInlineShorthandMod.
\* beforeParseContent
ShorthandBeforeParseContent(type, node, st) ==
    LET r == parseDefineArguments(type, node,
                IF type = "inline" THEN st.inlineSlotDelayedStack
                ELSE st.blockSlotDelayedStack)
    IN  [node |-> r.node,
         store |-> IF type = "inline"
                   THEN [st EXCEPT !.inlineSlotDelayedStack = r.stack]
                   ELSE [st EXCEPT !.blockSlotDelayedStack = r.stack],
         msgs |-> r.msgs]

\* assert(stack.pop()?.slotName == node.state.slotName): the stack
\* afterwards and whether the assertion held
PopSignature(slots, state) ==
    IF slots = <<>> THEN [stack |-> slots, asserted |-> FALSE]
    ELSE [stack |-> ButLast(slots),
          asserted |-> /\ Last(slots).kind = "signature"
                       /\ Last(slots).slotName = state.slotName]

\* DefineBlockShorthandMod.afterParseContent / DefineInlineShorthandMod.
\* afterParseContent
ShorthandAfterParseContent(type, node, st) ==
    IF ~node.state.defined \/ ~node.state.slotDefined
    THEN [store |-> st, asserted |-> TRUE]
    ELSE LET r == PopSignature(IF type = "inline"
                               THEN st.inlineSlotDelayedStack
                               ELSE st.blockSlotDelayedStack, node.state)
         IN  [store |-> IF type = "inline"
                        THEN [st EXCEPT !.inlineSlotDelayedStack = r.stack]
                        ELSE [st EXCEPT !.blockSlotDelayedStack = r.stack],
              asserted |-> r.asserted]

RECURSIVE InlineContentOf(_, _)
\* the inline content of the paragraphs among the nodes ids
InlineContentOf(h, ids) ==
    IF ids = <<>> THEN <<>>
    ELSE (IF h[Head(ids)].type = "paragraph" THEN h[Head(ids)].content
          ELSE <<>>) \o InlineContentOf(h, Tail(ids))

\* makeInlineDefinition(node, msgs): the inline content of the body
makeInlineDefinition(node, h) == InlineContentOf(h, node.content)

ShorthandsOf(cfg, type) ==
    IF type = "inline" THEN cfg.inlineShorthands ELSE cfg.blockShorthands

\* a variant of ShorthandPrepareExpand that leaves the definition out
ShorthandPrepareExpand_noDefinition(type, node, h, cfg, immediate) ==
    IF ~immediate \/ ~node.state.defined
    THEN [node |-> node, msgs |-> <<>>]
    ELSE [node |-> node, msgs |-> node.state.msgs]

\* prepareExpand of the shorthand definitions: the node (its state holds
\* the messages and, for inline, the definition) and the messages returned
ShorthandPrepareExpand(type, node, h, cfg, immediate) ==
    IF ~immediate \/ ~node.state.defined
    THEN [node |-> node, msgs |-> <<>>]
    ELSE LET arg == node.arguments[1]
             msgs == node.state.msgs \o
                (IF has(ShorthandsOf(cfg, type), node.state.name.value)
                 THEN <<NameAlreadyDefinedMessage(arg.start, arg.end,
                                                  node.state.name.value)>>
                 ELSE <<>>)
         IN  [node |-> [node EXCEPT !.state.msgs = msgs,
                           !.state.definition =
                                IF type = "inline"
                                THEN makeInlineDefinition(node, h) ELSE <<>>],
              msgs |-> msgs]

\* the Shorthand object expand registers: name, parts, postfix and mod
Shorthand(state, mod) ==
    [name |-> state.name.value, parts |-> PartLiterals(state.parts),
     postfix |-> state.postfix, mod |-> mod]

\* expand of the shorthand definitions
ShorthandExpand(type, node, h, ds, cfg, immediate) ==
    IF ~immediate \/ ~node.state.defined
    THEN ExpandResult(FALSE, <<>>, h, ds, cfg)
    ELSE LET mod == customModifier(type,
                        IF type = "inline" THEN NameOfInlineShorthandMod
                        ELSE NameOfBlockShorthandMod,
                        IF node.state.slotDefined THEN "Normal" ELSE "Marker",
                        ArgNames(node.state.parts),
                        IF type = "inline" THEN node.state.definition
                        ELSE node.content)
             sh == Shorthand(node.state, Len(ds) + 1)
         IN  ExpandResult(TRUE, <<>>, h, Append(ds, mod),
                IF type = "inline"
                THEN [cfg EXCEPT !.inlineShorthands =
                            add(@, node.state.name.value, sh)]
                ELSE [cfg EXCEPT !.blockShorthands =
                            add(@, node.state.name.value, sh)])

---------------------------------------------------------------------------
(* The hooks of a definition *)

beforeParseContent(d, node, st) ==
    CASE d.hooks = "define-block" -> DefineBlockBeforeParseContent(node, st)
      [] d.hooks = "block-shorthand" ->
            ShorthandBeforeParseContent("block", node, st)
      [] d.hooks = "inline-shorthand" ->
            ShorthandBeforeParseContent("inline", node, st)
      [] OTHER -> [node |-> node, store |-> st, msgs |-> <<>>]

afterParseContent(d, node, st) ==
    CASE d.hooks = "define-block" -> DefineBlockAfterParseContent(node, st)
      [] d.hooks = "block-shorthand" ->
            ShorthandAfterParseContent("block", node, st)
      [] d.hooks = "inline-shorthand" ->
            ShorthandAfterParseContent("inline", node, st)
      [] OTHER -> [store |-> st, asserted |-> TRUE]

\* prepareExpand of noteInline (min 0, max 1) and of noteBlock (min 1,
\* max 1): the messages of checkArguments, or the name as the state
NotePrepareExpand(node, min, max) ==
    LET msgs == checkArguments(node, min, max)
    IN  IF msgs # <<>> THEN [node |-> node, msgs |-> msgs]
        ELSE [node |-> [node EXCEPT !.state =
                    [NoState EXCEPT !.defined = TRUE,
                        !.name = [defined |-> TRUE,
                                  value |-> IF node.arguments = <<>> THEN <<>>
                                            ELSE ArgumentExpansion(
                                                   node.arguments[1]).value]]],
              msgs |-> <<>>]

\* afterProcessExpansion of noteInline and of noteBlock: the definitions
\* list with the note pushed when node.state is defined; noteBlock sets
\* node.expansion = []
NoteAfterProcessExpansion(isBlock, node, defined) ==
    [node |-> IF isBlock THEN [node EXCEPT !.expanded = TRUE,
                                           !.expansion = <<>>]
              ELSE node,
     notes |-> IF node.state.defined
               THEN Append(defined, [name |-> node.state.name.value,
                                     start |-> node.start])
               ELSE defined]

\* node.mod.afterProcessExpansion(node, cxt): the node and the notes store
afterProcessExpansion(d, node, defined) ==
    CASE d.hooks = "note-inline" ->
            NoteAfterProcessExpansion(FALSE, node, defined)
      [] d.hooks = "note-block" ->
            NoteAfterProcessExpansion(TRUE, node, defined)
      [] OTHER -> [node |-> node, notes |-> defined]

\* node.mod.prepareExpand(node, cxt, immediate): the node afterwards and
\* the messages returned
prepareExpand(d, node, h, cfg, immediate) ==
    CASE d.hooks = "define-block" ->
            [node |-> node,
             msgs |-> DefineBlockPrepareExpand(node, cfg, immediate)]
      [] d.hooks = "block-shorthand" ->
            ShorthandPrepareExpand("block", node, h, cfg, immediate)
      [] d.hooks = "inline-shorthand" ->
            ShorthandPrepareExpand("inline", node, h, cfg, immediate)
      [] d.hooks = "note-inline" -> NotePrepareExpand(node, 0, 1)
      [] d.hooks = "note-block" -> NotePrepareExpand(node, 1, 1)
      [] OTHER -> [node |-> node, msgs |-> <<>>]

\* the expand hook of a custom modifier: a clone of the captured content
CustomExpand(d, h, ds, cfg) ==
    LET c == cloneNodes(h, d.body)
    IN  ExpandResult(TRUE, c.ids, c.heap, ds, cfg)

\* what the use node (id) of a custom modifier d binds for the re-parse of
\* its expansion: the names of the arguments of d and the values of the
\* arguments of the use
Instantiation(d, node, id) ==
    [node |-> id, names |-> d.args,
     values |-> [i \in 1..Len(node.arguments) |->
                    ArgumentExpansion(node.arguments[i]).value]]

\* a variant of PushInstantiation that binds nothing
PushInstantiation_none(st, d, node, id) == st

\* the store while the expansion of the use node (id) of d is re-parsed
PushInstantiation(st, d, node, id) ==
    IF d.hooks = "custom"
    THEN [st EXCEPT !.instantiation = Append(@, Instantiation(d, node, id))]
    ELSE st

\* the store after the re-parse of the expansion of a use of d
PopInstantiation(st, d) ==
    IF d.hooks = "custom" /\ st.instantiation # <<>>
    THEN [st EXCEPT !.instantiation = ButLast(@)]
    ELSE st

\* the value bound to the argument name by the innermost use that is being
\* re-parsed
BoundValue(st, name) ==
    IF st.instantiation = <<>> THEN Undefined
    ELSE LET e == Last(st.instantiation)
             ks == { k \in 1..Len(e.names) :
                        k <= Len(e.values) /\ e.names[k] = name }
         IN  IF ks = {} THEN Undefined
             ELSE [defined |-> TRUE,
                   value |-> e.values[CHOOSE k \in ks : \A l \in ks : k <= l]]

RECURSIVE Interpolated(_, _)
\* the text of the argument entities content, each interpolation standing
\* for the value bound to the name it holds
Interpolated(st, content) ==
    IF content = <<>> THEN <<>>
    ELSE (IF Head(content).type = "interp"
          THEN BoundValue(st, ConcatContents(Head(content).arg.content)).value
          ELSE Head(content).content) \o Interpolated(st, Tail(content))

RECURSIVE InterpolatedAll(_, _)
InterpolatedAll(st, arguments) ==
    IF arguments = <<>> THEN <<>>
    ELSE Interpolated(st, Head(arguments).content)
         \o InterpolatedAll(st, Tail(arguments))

\* an expansion that is the text value, nothing when value is empty
TextExpansion(node, value, h, ds, cfg) ==
    IF value = <<>> THEN ExpandResult(TRUE, <<>>, h, ds, cfg)
    ELSE ExpandResult(TRUE, <<Len(h) + 1>>,
            Append(h, [NewNode("text", node.start, node.end)
                        EXCEPT !.text = value, !.generated = TRUE]),
            ds, cfg)

\* the expand hook of '$': the value bound to the name its argument holds
GetVarExpand(node, h, ds, cfg, st) ==
    TextExpansion(node,
        IF node.arguments = <<>> THEN <<>>
        ELSE BoundValue(st, Interpolated(st, node.arguments[1].content)).value,
        h, ds, cfg)

\* the expand hook of 'print': the text of its arguments
PrintExpand(node, h, ds, cfg, st) ==
    TextExpansion(node, InterpolatedAll(st, node.arguments), h, ds, cfg)

\* an expand hook of the host that returns one invocation of its own modifier
RecExpand(node, h, ds, cfg) ==
    LET fresh == [NewNode("block", node.start, node.end)
                    EXCEPT !.mod = node.mod, !.headEnd = node.headEnd,
                           !.marker = TRUE, !.generated = TRUE]
    IN  ExpandResult(TRUE, <<Len(h) + 1>>, Append(h, fresh), ds, cfg)

\* node.mod.expand(node, cxt, immediate)
expand(d, node, h, ds, cfg, immediate, st) ==
    CASE d.hooks = "define-block" -> DefineBlockExpand(node, h, ds, cfg, immediate)
      [] d.hooks = "block-shorthand" ->
            ShorthandExpand("block", node, h, ds, cfg, immediate)
      [] d.hooks = "inline-shorthand" ->
            ShorthandExpand("inline", node, h, ds, cfg, immediate)
      [] d.hooks = "custom" -> CustomExpand(d, h, ds, cfg)
      [] d.hooks = "rec" -> RecExpand(node, h, ds, cfg)
      [] d.hooks = "getvar" -> GetVarExpand(node, h, ds, cfg, st)
      [] d.hooks = "print" -> PrintExpand(node, h, ds, cfg, st)
      [] d.hooks = "trace" -> ExpandResult(TRUE, node.content, h, ds, cfg)
      [] OTHER -> ExpandResult(FALSE, <<>>, h, ds, cfg)

\* the values the parser may hand to a hook as its third parameter
ImmediateValues(d) ==
    IF d.hooks \in {"define-block", "block-shorthand", "inline-shorthand"}
    THEN BOOLEAN ELSE {TRUE}

---------------------------------------------------------------------------
(* Source strings *)

Items ==
    { <<"[", ".", "a", "]">>,
      <<"[", ".", "a", "b", ";", "]">>,
      <<"[", ".", "r", ";", "]">>,
      <<"[", ".", "x", ";", "]">>,
      <<"[", ".", "d", "]">>,
      <<"[", ".", "p", "]">>,
      <<"[", ".", "u", "]">>,
      <<"[", ".", "a", ":", "$", "(", "t", ")", "]">>,
      MODIFIER_SYSTEM_OPEN \o NameDefineBlock \o <<" ", "x", "]">>,
      MODIFIER_SYSTEM_OPEN \o NameDefineBlock \o <<" ", "a", "b", ";", "]">>,
      MODIFIER_SYSTEM_OPEN \o NameDefineBlock \o <<" ", "a", ";", "]">>,
      MODIFIER_SYSTEM_OPEN \o NameDefineBlock \o <<":", ";", "]">>,
      <<"[", "/", "d", "]">>,
      <<"[", "/", "p", "]">>,
      <<"[", "/", "u", "]">>,
      MODIFIER_INLINE_END_TAG,
      <<"t">>,
      <<"\n">>,
      <<" ">>,
      <<"\\">>,
      GROUP_BEGIN \o <<"\n">>,
      GROUP_END }

RECURSIVE Flatten(_)
Flatten(ss) == IF ss = <<>> THEN <<>> ELSE Head(ss) \o Flatten(Tail(ss))

\* every concatenation of at most MaxItems of items
Concatenations(items) ==
    UNION { { Flatten(c) : c \in [1..n -> items] } : n \in 0..MaxItems }

InlineShorthandHead == MODIFIER_SYSTEM_OPEN \o NameInlineShorthand
BlockShorthandHead == MODIFIER_SYSTEM_OPEN \o NameBlockShorthand

\* definitions of shorthands, what they are used in, and uses of them
ShorthandItems ==
    { InlineShorthandHead \o <<" ", "p", "]">>,
      InlineShorthandHead \o <<" ", "p", ";", "]">>,
      InlineShorthandHead \o <<" ", "p", ":", "x", ":", "p", "]">>,
      InlineShorthandHead \o <<" ", "p", ":", "(", "s", ")", ":", "q", ";", "]">>,
      InlineShorthandHead \o <<" ", "p", ":", "(", "s", ")", "]">>,
      InlineShorthandHead \o <<"]">>,
      BlockShorthandHead \o <<" ", "q", "]">>,
      BlockShorthandHead \o <<" ", "q", ":", "(", "s", ")", "]">>,
      BlockShorthandHead \o <<" ", "q", ":", "$", "(", "t", ")", ";", "]">>,
      MODIFIER_SYSTEM_OPEN \o NameDefineBlock \o <<" ", "x", ":", "(", "s", ")", "]">>,
      <<"[", ".", "x", ";", "]">>,
      <<" ", "1">>,
      <<"\n", "\n">>,
      <<"p">>,
      <<"q">> }

\* literal inputs with their expected shape
Scenario1 ==
    InlineShorthandHead \o
    <<" ", "p", "]", " ", "1", "2", "3", "\n", "\n", "p">>
Scenario2 ==
    InlineShorthandHead \o <<" ", "p", ";", "]", "\n", "\n", "p">>
Scenario3 ==
    InlineShorthandHead \o <<" ", "p", ":", "x", ":", "p", "]">> \o
    MODIFIER_INLINE_OPEN \o NamePrint \o
    <<" ", "$", "(", "x", ")", "]", "\n", "\n", "p", "1", "p">>
Scenario4 ==
    InlineShorthandHead \o <<" ", "p", ":", "x", ":", "p", "]">> \o
    MODIFIER_INLINE_OPEN \o NameGetVar \o
    <<"x", "]", "\n", "\n", "p", "1", "p">>
Scenario6 ==
    GROUP_BEGIN \o <<"\n", "h", "e", "l", "l", "o", "\n">> \o GROUP_END \o
    <<"\n", "w", "o", "r", "l", "d">>

\* definitions nested in the body of a definition that is then used
NestedDefinitions ==
    MODIFIER_SYSTEM_OPEN \o NameDefineBlock \o <<" ", "x", "]">> \o
    BlockShorthandHead \o <<" ", "q", ":", "(", "s", ")", "]">> \o
    MODIFIER_SYSTEM_OPEN \o NameDefineBlock \o
    <<" ", "a", ":", "(", "s", ")", "]", " ", "1", "\n", "\n",
      "[", ".", "x", ";", "]">>

\* the block with every hook, the notes, and what they are nested in
HookItems ==
    { <<"[", ".", "h", "]">>,
      <<"[", ".", "d", "]">>,
      <<"[", ".", "a", "]">>,
      MODIFIER_INLINE_OPEN \o NameNoteInline \o <<" ", "n", "]">>,
      MODIFIER_BLOCK_OPEN \o NameNote \o <<" ", "n", "]">>,
      <<"t">> \o MODIFIER_INLINE_END_TAG,
      <<"t">> }

\* a note-inline in a block in a block
NestedNotes ==
    <<"[", ".", "a", "]", "[", ".", "a", "]">> \o
    MODIFIER_INLINE_OPEN \o NameNoteInline \o <<" ", "n", "]", "t">> \o
    MODIFIER_INLINE_END_TAG

\* an indented second line in an inline preformatted modifier
PreformattedIndent ==
    <<"[", "/", "p", "]", "t", "\n", " ", "t">> \o MODIFIER_INLINE_END_TAG

\* two inline modifiers left open at a blank line, and a second paragraph
UnclosedNested ==
    <<"[", "/", "d", "]", "[", "/", "d", "]", "t", "\n", "\n", "t">>

\* shorthand definitions that end with an empty argument
NameThenEmpty == InlineShorthandHead \o <<" ", "p", ":", "]">>
SlotThenEmpty ==
    BlockShorthandHead \o <<" ", "q", ":", "(", "s", ")", ":", "]">>
PostfixThenTwo ==
    InlineShorthandHead \o
    <<" ", "p", ":", "(", "s", ")", ":", "q", ":", "x", ":", "]">>
PostfixThenText ==
    InlineShorthandHead \o <<" ", "p", ":", "(", "s", ")", ":", "q", ":", "x", "]">>

\* a paragraph in ReparseDepthLimit + 1 blocks of a definition without
\* hooks
DeepNesting ==
    <<"[", ".", "a", "]", "[", ".", "a", "]", "[", ".", "a", "]", "t">>

Scenarios ==
    { Scenario1, Scenario2, Scenario3, Scenario4, Scenario6, NestedDefinitions,
      NestedNotes, PreformattedIndent, UnclosedNested, NameThenEmpty,
      SlotThenEmpty, PostfixThenTwo, PostfixThenText, DeepNesting }

Sources ==
    Concatenations(Items) \cup Concatenations(ShorthandItems) \cup
    Concatenations(HookItems) \cup Scenarios

---------------------------------------------------------------------------
(* The call stack *)

\* a stack frame: the function running, where in it (pc), and its locals
Frame(fn) ==
    [fn |-> fn, pc |-> "start", type |-> "", node |-> 0, ok |-> TRUE,
     isMarker |-> FALSE, called |-> FALSE, depth |-> 0, nodes |-> <<>>,
     idx |-> 0, iterPos |-> -1, grouped |-> FALSE, posStart |-> 0,
     posContentStart |-> 0, posContentEnd |-> 0, string |-> <<>>, hits |-> 0]

Top == stack[Len(stack)]
Running(fn) == status = "running" /\ stack # <<>> /\ Top.fn = fn
Replace(f) == Append(ButLast(stack), f)
Call(f, callee) == Append(Replace(f), callee)

\* the shorthand of kind type whose name is the longest that is a prefix at
\* p, as <<name, shorthand>>, or <<>> when there is none
LookupShorthand(type, p) ==
    FindAccepted(SortEntries(ShorthandsOf(config, type)), p)

ModifierFrame(type) == [Frame("MODIFIER") EXCEPT !.type = type]
\* the frame of a MODIFIER that reads the use of a shorthand
ShorthandFrame(type) ==
    [Frame("MODIFIER") EXCEPT !.type = type, !.pc = "shorthand"]
\* a variant of ExpandFrame that enters #expand after the call of
\* beforeParseContent and the re-parse of the content
ExpandFrame_afterContent(id, depth) ==
    [Frame("EXPAND") EXCEPT !.node = id, !.depth = depth, !.hits = limitHits,
                            !.pc = "afterContent"]

\* #expand(node, depth) as called
ExpandFrame(id, depth) ==
    [Frame("EXPAND") EXCEPT !.node = id, !.depth = depth, !.hits = limitHits]
ReparseFrame(nodes, depth) ==
    [Frame("REPARSE") EXCEPT !.nodes = nodes, !.depth = depth]

Cur ==
    [src |-> src, pos |-> pos, heap |-> heap, defs |-> defs,
     config |-> config, prefixes |-> prefixes, blockStack |-> blockStack,
     inlineStack |-> inlineStack, referringStack |-> referringStack,
     messages |-> messages, groupDepth |-> groupDepth,
     delayDepth |-> delayDepth, store |-> store, stack |-> stack,
     ret |-> ret, status |-> status, stripped |-> stripped,
     hookLog |-> hookLog,
     limitHits |-> limitHits, failedRoots |-> failedRoots,
     loopAdvance |-> loopAdvance, steps |-> steps,
     configurations |-> configurations, cxt |-> cxt, first |-> first,
     notes |-> notes]

Apply(nx) ==
    /\ src' = nx.src
    /\ pos' = nx.pos
    /\ heap' = nx.heap
    /\ defs' = nx.defs
    /\ config' = nx.config
    /\ prefixes' = nx.prefixes
    /\ blockStack' = nx.blockStack
    /\ inlineStack' = nx.inlineStack
    /\ referringStack' = nx.referringStack
    /\ messages' = nx.messages
    /\ groupDepth' = nx.groupDepth
    /\ delayDepth' = nx.delayDepth
    /\ store' = nx.store
    /\ stack' = nx.stack
    /\ ret' = nx.ret
    /\ status' = nx.status
    /\ stripped' = nx.stripped
    /\ hookLog' = nx.hookLog
    /\ limitHits' = nx.limitHits
    /\ failedRoots' = nx.failedRoots
    /\ loopAdvance' = nx.loopAdvance
    /\ steps' = nx.steps + 1
    \* cxt.config is the object configurations[cxt]: what is written to
    \* the one is written to the other
    /\ configurations' = [nx.configurations EXCEPT ![nx.cxt] = nx.config]
    /\ cxt' = nx.cxt
    /\ first' = nx.first
    /\ notes' = nx.notes
    /\ UNCHANGED fixed

\* a failed assert(): an Error is thrown and parse does not return
Throw == [Cur EXCEPT !.status = "thrown"]

\* the running function returns v to its caller
Return(st, v) == [st EXCEPT !.stack = ButLast(stack), !.ret = v]

Emit(ms) == message(messages, referringStack, ms)

\* WARN_IF_MORE_NEWLINES_THAN(n) from p: the cursor and the messages
WARN_IF_MORE_NEWLINES_THAN(n, p) ==
    LET end == WHITESPACES_OR_NEWLINES(p)
    IN  [pos |-> end,
         msgs |-> IF CountNewlines(p, end) > n
                  THEN <<UnnecessaryNewlineMessage(p, end - p)>> ELSE <<>>]

\* SHOULD_BE_A_NEWLINE() from p: the cursor and the messages
SHOULD_BE_A_NEWLINE(p) ==
    LET q == acceptWhitespaces(p)
    IN  IF peek(<<"\n">>, q) THEN [pos |-> q + 1, msgs |-> <<>>]
        ELSE [pos |-> q, msgs |-> <<ContentShouldBeOnNewlineMessage(q)>>]

---------------------------------------------------------------------------
(* Parser: blocks *)

\* the state after new Parser(scanner, config), but for the source
Constructed ==
    /\ pos = 0
    /\ heap = <<RootNode>>
    /\ defs = InitDefs
    /\ configurations = from(<<InitConfig>>, 1).configurations
    /\ cxt = from(<<InitConfig>>, 1).id
    /\ config = configurations[cxt]
    /\ prefixes = sortModifiers(config)
    /\ blockStack = <<1>>
    /\ inlineStack = <<>>
    /\ referringStack = <<>>
    /\ messages = <<>>
    /\ groupDepth = 0
    /\ delayDepth = 0
    /\ store = InitStore
    /\ stack = <<Frame("DOCUMENT")>>
    /\ ret = TRUE
    /\ status = "running"
    /\ stripped = 0
    /\ hookLog = <<>>
    /\ limitHits = 0
    /\ failedRoots = {}
    /\ loopAdvance = TRUE
    /\ steps = 0
    /\ first = [defined |-> FALSE, messages |-> <<>>, root |-> <<>>,
                hookLog |-> <<>>]
    /\ notes = <<>>
    /\ fixed = [defined |-> FALSE, message |-> 0, cursor |-> 0,
                src |-> <<>>, newCursor |-> 0]

Init == src \in Sources /\ Constructed

\* DOCUMENT: skip whitespace, then parse a block entity or return at EOF;
\* when the stack empties parse() returns the Document
DOCUMENT ==
    /\ Running("DOCUMENT")
    /\ LET p == WHITESPACES_OR_NEWLINES(pos)
       IN  IF isEOF(p)
           THEN Apply([Cur EXCEPT !.pos = p, !.stack = ButLast(stack),
                                  !.status = "done"])
           ELSE Apply([Cur EXCEPT !.pos = p,
                    !.stack = Call([Top EXCEPT !.iterPos = p],
                                   Frame("BLOCK_ENTITY"))])

BLOCK_ENTITY ==
    /\ Running("BLOCK_ENTITY")
    /\ IF isEOF(pos) THEN Apply(Throw)
       ELSE IF peek(MODIFIER_BLOCK_OPEN, pos)
       THEN Apply([Cur EXCEPT !.stack = Replace(ModifierFrame("block"))])
       ELSE IF peek(MODIFIER_SYSTEM_OPEN, pos)
       THEN Apply([Cur EXCEPT !.stack = Replace(ModifierFrame("system"))])
       ELSE IF LookupShorthand("block", pos) # <<>>
       THEN Apply([Cur EXCEPT !.stack = Replace(ShorthandFrame("block"))])
       ELSE Apply([Cur EXCEPT
                !.stack = Replace(Frame("MAYBE_GROUPED_PARAGRAPH"))])

\* MAYBE_GROUPED_PARAGRAPH up to the group loop, or the call of PARAGRAPH
MAYBE_GROUPED_PARAGRAPH ==
    /\ Running("MAYBE_GROUPED_PARAGRAPH")
    /\ Top.pc = "start"
    /\ IF isEOF(pos) THEN Apply(Throw)
       ELSE IF peek(GROUP_BEGIN, pos)
       THEN LET nl == SHOULD_BE_A_NEWLINE(accept(GROUP_BEGIN, pos))
                w == WARN_IF_MORE_NEWLINES_THAN(1, nl.pos)
            IN  Apply([Cur EXCEPT !.pos = w.pos,
                     !.groupDepth = groupDepth + 1,
                     !.messages = Emit(nl.msgs \o w.msgs),
                     !.stack = Replace([Top EXCEPT !.pc = "loop"])])
       ELSE Apply([Cur EXCEPT !.stack = Replace(Frame("PARAGRAPH"))])

\* one iteration of the group loop of MAYBE_GROUPED_PARAGRAPH
GROUP_LOOP ==
    /\ Running("MAYBE_GROUPED_PARAGRAPH")
    /\ Top.pc = "loop"
    /\ LET w == IF Top.called THEN WARN_IF_MORE_NEWLINES_THAN(1, pos)
                ELSE [pos |-> pos, msgs |-> <<>>]
           p == w.pos
       IN  IF isEOF(p)
           THEN Apply([Cur EXCEPT !.pos = p,
                    !.messages = Emit(w.msgs \o <<ExpectedMessage(p, GROUP_END)>>),
                    !.stack = ButLast(stack)])
           ELSE IF peek(GROUP_END, p)
           THEN Apply([Cur EXCEPT !.pos = accept(GROUP_END, p),
                    !.messages = Emit(w.msgs),
                    !.groupDepth = groupDepth - 1,
                    !.stack = ButLast(stack)])
           ELSE Apply([Cur EXCEPT !.pos = p,
                    !.messages = Emit(w.msgs),
                    !.stack = Call([Top EXCEPT !.called = TRUE, !.iterPos = p],
                                   Frame("BLOCK_ENTITY"))])

\* PARAGRAPH up to its first INLINE_ENTITY
PARAGRAPH ==
    /\ Running("PARAGRAPH")
    /\ Top.pc = "start"
    /\ IF isEOF(pos) \/ blockStack = <<>> THEN Apply(Throw)
       ELSE LET id == Len(heap) + 1
                node == NewNode("paragraph", pos, -1)
            IN  Apply([Cur EXCEPT
                     !.heap = addNode(Append(heap, node), blockStack, id),
                     !.inlineStack = Append(inlineStack, id),
                     !.stack = Call([Top EXCEPT !.pc = "loop", !.node = id,
                                                !.iterPos = pos],
                                    Frame("INLINE_ENTITY"))])

\* while (!this.scanner.isEOF() && this.INLINE_ENTITY()) {}, then endInline
PARAGRAPH_LOOP ==
    /\ Running("PARAGRAPH")
    /\ Top.pc = "loop"
    /\ IF ret /\ ~isEOF(pos)
       THEN Apply([Cur EXCEPT
                !.stack = Call([Top EXCEPT !.iterPos = pos],
                               Frame("INLINE_ENTITY"))])
       ELSE IF inlineStack = <<>> THEN Apply(Throw)
       ELSE Apply([Cur EXCEPT
                !.heap = endNode(heap, inlineStack, pos),
                !.inlineStack = ButLast(inlineStack),
                !.stack = ButLast(stack)])

---------------------------------------------------------------------------
(* Parser: MODIFIER *)

\* the names a registry holds
NamesOf(entries) == { entries[i][1] : i \in 1..Len(entries) }

\* the entry of the prefix table found at the name position p1, or <<>>
LookupName(type, p1) == FindAccepted(PrefixesOf(prefixes, type), p1)

\* where acceptUntil(MODIFIER_CLOSE_SIGN) can leave the cursor when the name
\* lookup at the opener fails; the end of the name when it succeeds
NamePositions(type, posStart) ==
    LET p1 == posStart + Len(OpenerOf(type))
        result == LookupName(type, p1)
    IN  IF result # <<>> THEN {p1 + Len(result[1])}
        ELSE acceptUntilPositions(MODIFIER_CLOSE_SIGN, p1)

\* a variant of UnknownMessages that reports nothing
UnknownMessages_silent(posStart, p1, pName) == <<>>

\* the messages of MODIFIER when no name matched at p1: the cursor went from
\* p1 to pName looking for MODIFIER_CLOSE_SIGN
UnknownMessages(posStart, p1, pName) ==
    (IF acceptUntilFound(MODIFIER_CLOSE_SIGN, p1) THEN <<>>
     ELSE <<ExpectedMessage(pName, MODIFIER_CLOSE_SIGN)>>)
    \o <<UnknownModifierMessage(posStart, pName - posStart)>>

\* the head of MODIFIER(type), opener at posStart, cursor at pName after the
\* name, args the result of ARGUMENTS(): the definition, the node, the cursor
\* after the head, the messages, and whether it is a marker
HeadOf(type, posStart, pName, args) ==
    LET p1 == posStart + Len(OpenerOf(type))
        result == LookupName(type, p1)
        mod == IF result # <<>> THEN result[2] ELSE UnknownModifier(type)
        unknownMsgs == IF result # <<>> THEN <<>>
                       ELSE UnknownMessages(posStart, p1, pName)
        endsign == peek(MODIFIER_END_SIGN, args.pos)
        p4 == accept(MODIFIER_END_SIGN, args.pos)
        closed == peek(MODIFIER_CLOSE_SIGN, p4)
        p5 == accept(MODIFIER_CLOSE_SIGN, p4)
        isMarker == defs[mod].flags = "Marker" \/ endsign
        node == [NewNode(type, posStart, -1) EXCEPT
                    !.mod = mod, !.headEnd = p5, !.arguments = args.list,
                    !.marker = isMarker, !.nameStart = p1,
                    !.registered = NamesOf(RegistryOf(config, type))]
    IN  [mod |-> mod, node |-> node, pos |-> p5, isMarker |-> isMarker,
         adv |-> args.adv,
         msgs |-> unknownMsgs \o args.msgs \o
                  (IF closed THEN <<>>
                   ELSE <<ExpectedMessage(p4, MODIFIER_CLOSE_SIGN)>>)]

ModifierHead(type, posStart, pName) ==
    HeadOf(type, posStart, pName, ARGUMENTS(pName))

\* MODIFIER(type) from the created node (head h, id) to the parse of its
\* content; before is what beforeParseContent returned
EnterContent(type, h, id, before) ==
    LET d == defs[h.mod]
        heap1 == Append(heap, before.node)
        st == [Cur EXCEPT
                !.pos = h.pos,
                !.messages = Emit(h.msgs \o before.msgs),
                !.store = before.store,
                !.loopAdvance = loopAdvance /\ h.adv,
                !.hookLog = Logged(hookLog, d, "beforeParseContent", id,
                                   0, delayDepth, TRUE),
                !.delayDepth = EnterDelay(d, delayDepth)]
        f == [Top EXCEPT !.node = id, !.isMarker = h.isMarker,
                         !.posStart = pos]
        w == WARN_IF_MORE_NEWLINES_THAN(1, h.pos)
    IN  CASE h.isMarker /\ type = "inline" ->
               IF inlineStack = <<>> THEN Throw
               ELSE [st EXCEPT
                    !.heap = addNode(heap1, inlineStack, id),
                    !.stack = Replace([f EXCEPT !.pc = "tail"])]
          [] h.isMarker /\ type # "inline" ->
               [st EXCEPT
                    !.heap = addNode(heap1, blockStack, id),
                    !.stack = Replace([f EXCEPT !.pc = "tail"])]
          [] ~h.isMarker /\ type = "inline" ->
               IF inlineStack = <<>> THEN Throw
               ELSE [st EXCEPT
                    !.heap = addNode(heap1, inlineStack, id),
                    !.inlineStack = Append(inlineStack, id),
                    !.stack = Replace([f EXCEPT !.pc = "inlineLoop"])]
          [] OTHER ->
               [st EXCEPT
                    !.pos = w.pos,
                    !.heap = addNode(heap1, blockStack, id),
                    !.blockStack = Append(blockStack, id),
                    !.messages = Emit(h.msgs \o before.msgs \o w.msgs),
                    !.stack =
                        IF isEOF(w.pos)
                        THEN Replace([f EXCEPT !.pc = "endBlock"])
                        ELSE Call([f EXCEPT !.pc = "endBlock"],
                                  IF d.flags = "Preformatted"
                                  THEN Frame("PRE_PARAGRAPH")
                                  ELSE Frame("BLOCK_ENTITY"))]

ModifierEnter(type, h) ==
    EnterContent(type, h, Len(heap) + 1,
                 beforeParseContent(defs[h.mod], h.node, store))

\* MODIFIER(type) from its entry to the parse of the content
MODIFIER ==
    /\ Running("MODIFIER")
    /\ Top.pc = "start"
    /\ IF ~peek(OpenerOf(Top.type), pos) THEN Apply(Throw)
       ELSE \E pName \in NamePositions(Top.type, pos) :
                Apply(ModifierEnter(Top.type,
                                    ModifierHead(Top.type, pos, pName)))

\* the literal that closes the content read by frame f: the postfix of a
\* shorthand, MODIFIER_INLINE_END_TAG for a modifier
EndTagOf(f) == IF f.string # <<>> THEN f.string ELSE MODIFIER_INLINE_END_TAG

\* one round of the while (true) over the content of an inline modifier;
\* on a break the node is closed with endInline
MODIFIER_INLINE_LOOP ==
    /\ Running("MODIFIER")
    /\ Top.pc = "inlineLoop"
    /\ LET mod == defs[heap[Top.node].mod]
           failed == Top.called /\ ~ret
           closeTag == ~failed /\ peek(EndTagOf(Top), pos)
           p == IF closeTag THEN accept(EndTagOf(Top), pos) ELSE pos
           msgs == IF closeTag THEN <<>>
                   ELSE <<UnclosedInlineModifierMessage(pos, mod.name)>>
       IN  IF failed \/ closeTag \/ isEOF(pos)
           THEN IF inlineStack = <<>> THEN Apply(Throw)
                ELSE Apply([Cur EXCEPT !.pos = p,
                        !.messages = Emit(msgs),
                        !.heap = endNode(heap, inlineStack, p),
                        !.inlineStack = ButLast(inlineStack),
                        !.stack = Replace([Top EXCEPT !.pc = "tail",
                                                      !.ok = ~failed])])
           ELSE Apply([Cur EXCEPT
                    !.stack = Call([Top EXCEPT !.called = TRUE,
                                               !.iterPos = pos],
                        IF mod.flags = "Preformatted"
                        THEN Frame("PREFORMATTED_INLINE_ENTITY")
                        ELSE Frame("INLINE_ENTITY"))])

\* MODIFIER after the content: endBlock for a block with content, the
\* delayDepth decrement, afterParseContent, and the call of #expand(node)
MODIFIER_TAIL ==
    /\ Running("MODIFIER")
    /\ Top.pc \in {"tail", "endBlock"}
    /\ LET id == Top.node
           d == defs[heap[id].mod]
           after == afterParseContent(d, heap[id], store)
           isBlock == Top.pc = "endBlock"
       IN  IF (isBlock /\ Len(blockStack) < 2) \/ ~after.asserted
           THEN Apply(Throw)
           ELSE Apply([Cur EXCEPT
                    !.heap = IF isBlock THEN endNode(heap, blockStack, pos)
                             ELSE heap,
                    !.blockStack = IF isBlock THEN ButLast(blockStack)
                                   ELSE blockStack,
                    !.delayDepth = LeaveDelay(d, delayDepth),
                    !.store = after.store,
                    !.hookLog = Logged(hookLog, d, "afterParseContent", id, 0,
                                       LeaveDelay(d, delayDepth), TRUE),
                    !.stack = Call([Top EXCEPT !.pc = "return"],
                                   ExpandFrame(id, 0))])

\* a variant that returns true whatever the content did
MODIFIER_RETURN_true ==
    /\ Running("MODIFIER")
    /\ Top.pc = "return"
    /\ Apply(Return(Cur, TRUE))

\* return ok
MODIFIER_RETURN ==
    /\ Running("MODIFIER")
    /\ Top.pc = "return"
    /\ Apply(Return(Cur, Top.ok))

---------------------------------------------------------------------------
(* Parser: the use of a shorthand *)

\* an argument segment: the text of the source from a to b
SegmentArg(a, b) ==
    [start |-> a, end |-> b,
     content |-> IF b > a
                 THEN <<ArgEntity("text", SubSeq(src, a + 1, b), a, b)>>
                 ELSE <<>>]

RECURSIVE ShorthandArguments(_, _, _)
\* one argument segment for each part literal of parts, read from p until
\* the literal appears (until the end of input when it does not): the
\* arguments and the cursor afterwards
ShorthandArguments(parts, p, list) ==
    IF parts = <<>> THEN [list |-> list, pos |-> p]
    ELSE LET q == indexOf(Head(parts), p)
         IN  IF q >= 0
             THEN ShorthandArguments(Tail(parts), q + Len(Head(parts)),
                                     Append(list, SegmentArg(p, q)))
             ELSE ShorthandArguments(Tail(parts), Len(src),
                                     Append(list, SegmentArg(p, Len(src))))

\* the synthetic node for the shorthand sh matched at posStart
ShorthandHead(type, sh, posStart) ==
    LET args == ShorthandArguments(sh.parts, posStart + Len(sh.name), <<>>)
        isMarker == defs[sh.mod].flags = "Marker"
        node == [NewNode(type, posStart, -1) EXCEPT
                    !.mod = sh.mod, !.headEnd = args.pos,
                    !.arguments = args.list, !.marker = isMarker,
                    !.nameStart = posStart, !.shorthand = TRUE]
    IN  [mod |-> sh.mod, node |-> node, pos |-> args.pos,
         isMarker |-> isMarker, adv |-> args.pos > posStart, msgs |-> <<>>]

\* the frame that reads the content of the shorthand sh: it ends at the
\* postfix of sh
WithPostfix(st, sh) ==
    IF st.status = "running" /\ sh.postfix.defined
    THEN [st EXCEPT !.stack[Len(st.stack)].string = sh.postfix.value]
    ELSE st

\* the use of a shorthand, from its match to the parse of its content
SHORTHAND ==
    /\ Running("MODIFIER")
    /\ Top.pc = "shorthand"
    /\ IF LookupShorthand(Top.type, pos) = <<>> THEN Apply(Throw)
       ELSE Apply(WithPostfix(
                ModifierEnter(Top.type,
                    ShorthandHead(Top.type, LookupShorthand(Top.type, pos)[2],
                                  pos)),
                LookupShorthand(Top.type, pos)[2]))

---------------------------------------------------------------------------
(* Parser: inline entities and preformatted paragraphs *)

\* a variant of AtGroupEnd that does not look at groupDepth
AtGroupEnd_anywhere(q) == peek(GROUP_END, q)

\* this.scanner.peek(GROUP_END) && this.groupDepth > 0
AtGroupEnd(q) == peek(GROUP_END, q) /\ groupDepth > 0

\* PREFORMATTED_INLINE_ENTITY() run to its return
PreformattedInlineEntity ==
    IF isEOF(pos) \/ inlineStack = <<>> THEN Throw
    ELSE IF peek(<<"\n">>, pos)
    THEN LET q == acceptWhitespaces(pos + 1)
         IN  IF peek(MODIFIER_BLOCK_OPEN, q) \/ peek(MODIFIER_SYSTEM_OPEN, q)
                \/ AtGroupEnd(q) \/ isEOF(q)
             THEN Return([Cur EXCEPT !.pos = q], FALSE)
             ELSE IF peek(<<"\n">>, q)
             THEN LET w == WARN_IF_MORE_NEWLINES_THAN(0, q + 1)
                  IN  Return([Cur EXCEPT !.pos = w.pos,
                                         !.messages = Emit(w.msgs)], FALSE)
             ELSE Return([Cur EXCEPT !.pos = q,
                        !.heap = addString(heap, inlineStack, <<"\n">>, q)],
                      TRUE)
    ELSE Return([Cur EXCEPT !.pos = pos + 1,
                !.heap = addString(heap, inlineStack, <<charAt(pos)>>, pos + 1)],
              TRUE)

PREFORMATTED_INLINE_ENTITY ==
    /\ Running("PREFORMATTED_INLINE_ENTITY")
    /\ Apply(PreformattedInlineEntity)

INLINE_ENTITY ==
    /\ Running("INLINE_ENTITY")
    /\ IF isEOF(pos) \/ inlineStack = <<>> THEN Apply(Throw)
       ELSE IF peek(MODIFIER_BLOCK_OPEN, pos)
       THEN Apply(Return([Cur EXCEPT !.messages =
                    Emit(<<NewBlockShouldBeOnNewlineMessage(pos)>>)], FALSE))
       ELSE IF peek(MODIFIER_INLINE_OPEN, pos)
       THEN Apply([Cur EXCEPT !.stack = Replace(ModifierFrame("inline"))])
       ELSE IF peek(MODIFIER_SYSTEM_OPEN, pos)
       THEN Apply(Return(Cur, FALSE))
       ELSE IF peek(<<"\\">>, pos)
       THEN IF isEOF(pos + 1)
            THEN Apply(Return([Cur EXCEPT !.pos = pos + 1,
                    !.heap = addString(heap, inlineStack, <<"\\">>, pos + 1)],
                  TRUE))
            ELSE LET id == Len(heap) + 1
                     node == [NewNode("escaped", pos, pos + 2)
                                EXCEPT !.text = <<charAt(pos + 1)>>]
                 IN  Apply(Return([Cur EXCEPT !.pos = pos + 2,
                        !.heap = addNode(Append(heap, node), inlineStack, id)],
                      TRUE))
       ELSE IF LookupShorthand("inline", pos) # <<>>
       THEN Apply([Cur EXCEPT !.stack = Replace(ShorthandFrame("inline"))])
       ELSE Apply(PreformattedInlineEntity)

RECURSIVE PreLoop(_, _, _, _, _)
\* the while (!isEOF()) of PRE_PARAGRAPH from cursor p: the cursor, the
\* text, the end of the content, the messages, and whether every round
\* that went on moved the cursor
PreLoop(grouped, p, string, posContentEnd, adv) ==
    LET out(q, ms) == [pos |-> q, string |-> string,
                       posContentEnd |-> posContentEnd, msgs |-> ms,
                       adv |-> adv]
    IN  IF isEOF(p) THEN out(p, <<>>)
        ELSE IF peek(<<"\n">>, p)
        THEN LET q == acceptWhitespaces(p + 1)
                 white == SubSeq(src, p + 1, q)
             IN  IF grouped /\ peek(GROUP_END, q)
                 THEN out(accept(GROUP_END, q), <<>>)
                 ELSE IF ~grouped /\ peek(<<"\n">>, q)
                 THEN out(q + 1, <<>>)
                 ELSE IF isEOF(q)
                 THEN out(q, IF grouped THEN <<ExpectedMessage(q, GROUP_END)>>
                             ELSE <<>>)
                 ELSE PreLoop(grouped, q, string \o white, q, adv /\ q > p)
        ELSE PreLoop(grouped, p + 1, Append(string, charAt(p)), p + 1,
                     adv /\ p + 1 > p)

\* PRE_PARAGRAPH() run to its return
PRE_PARAGRAPH ==
    /\ Running("PRE_PARAGRAPH")
    /\ IF isEOF(pos) THEN Apply(Throw)
       ELSE LET posStart == pos
                grouped == peek(GROUP_BEGIN, pos)
                nl == IF grouped
                      THEN SHOULD_BE_A_NEWLINE(accept(GROUP_BEGIN, pos))
                      ELSE [pos |-> pos, msgs |-> <<>>]
                r == PreLoop(grouped, nl.pos, <<>>, nl.pos, TRUE)
                id == Len(heap) + 1
                node == [NewNode("pre", posStart, r.pos) EXCEPT
                            !.contentStart = nl.pos,
                            !.contentEnd = r.posContentEnd,
                            !.text = r.string]
            IN  Apply([Cur EXCEPT !.pos = r.pos,
                     !.messages = Emit(nl.msgs \o r.msgs),
                     !.loopAdvance = loopAdvance /\ r.adv,
                     !.heap = addNode(Append(heap, node), blockStack, id),
                     !.stack = ButLast(stack)])

---------------------------------------------------------------------------
(* Parser: #expand and #reparse *)

\* a variant of onConfigChange that keeps the tables of the constructor
onConfigChange_stale(pfx, old, cfg) == pfx

\* cxt.onConfigChange = () => this.#sortModifiers(): the prefix tables after
\* the configuration became cfg
onConfigChange(pfx, old, cfg) == IF cfg = old THEN pfx ELSE sortModifiers(cfg)

\* #expand from the prepareExpand hook to the re-parse of the expansion,
\* continuing from state st with third hook parameter imm
ExpandBody(st, imm) ==
    LET f == Top
        id == f.node
        n == st.heap[id]
        d == st.defs[n.mod]
        hasExpand == "expand" \in HooksOf(d)
        prepared == prepareExpand(d, n, st.heap, st.config, imm)
        pmsgs == prepared.msgs
        log1 == Logged(st.hookLog, d, "prepareExpand", id, f.depth,
                       st.delayDepth, imm)
        r == expand(d, prepared.node, st.heap, st.defs, st.config, imm,
                    st.store)
        log2 == Logged(log1, d, "expand", id, f.depth, st.delayDepth, imm)
        st1 == [st EXCEPT
                 !.heap = [st.heap EXCEPT ![id] = prepared.node],
                 !.messages = message(st.messages, st.referringStack, pmsgs),
                 !.hookLog = log2]
        st2 == [st1 EXCEPT
                 !.heap = [r.heap EXCEPT ![id] =
                            [prepared.node EXCEPT !.expanded = TRUE,
                                                  !.expansion = r.expansion]],
                 !.defs = r.defs,
                 !.config = r.config,
                 !.prefixes = onConfigChange(st.prefixes, st.config, r.config)]
        expansion == IF hasExpand THEN r.expansion ELSE n.content
        st3 == IF hasExpand THEN st2 ELSE st1
    IN  IF hasExpand /\ ~r.defined THEN Return(st1, TRUE)
        ELSE IF expansion = <<>> THEN Return(st3, TRUE)
        ELSE [st3 EXCEPT
                !.hookLog = Logged(st3.hookLog, d, "beforeProcessExpansion",
                                   id, f.depth, st.delayDepth, TRUE),
                !.referringStack = pushReferring(st.referringStack,
                                                 n.start, n.end),
                !.store = PushInstantiation(st.store, d, n, id),
                !.stack = Call([f EXCEPT !.pc = "afterExpansion"],
                               ReparseFrame(expansion, f.depth))]

\* a variant of ShouldDelay that never delays
ShouldDelay_never(d) == FALSE

\* this.cxt.delayDepth > 0 && !node.mod.alwaysTryExpand
ShouldDelay(d) == delayDepth > 0 /\ ~d.alwaysTryExpand

\* #expand(node, depth) from its entry
EXPAND ==
    /\ Running("EXPAND")
    /\ Top.pc = "start"
    /\ LET id == Top.node
           n == heap[id]
           d == defs[n.mod]
       IN  IF n.expanded THEN Apply(Return(Cur, TRUE))
           ELSE IF ShouldDelay(d) THEN Apply(Return(Cur, TRUE))
           ELSE IF n.content # <<>> /\ Top.depth > 0
           THEN LET before == beforeParseContent(d, n, store)
                IN  Apply([Cur EXCEPT
                        !.heap = [heap EXCEPT ![id] = before.node],
                        !.store = before.store,
                        !.messages = Emit(before.msgs),
                        !.hookLog = Logged(hookLog, d, "beforeParseContent",
                                           id, Top.depth, delayDepth, TRUE),
                        !.delayDepth = EnterDelay(d, delayDepth),
                        !.stack = Call([Top EXCEPT !.pc = "afterContent"],
                                       ReparseFrame(n.content, Top.depth))])
           ELSE \E imm \in ImmediateValues(d) : Apply(ExpandBody(Cur, imm))

\* #expand after the simulated parse of generated content; the result of
\* that #reparse call is not used
EXPAND_AFTER_CONTENT ==
    /\ Running("EXPAND")
    /\ Top.pc = "afterContent"
    /\ LET id == Top.node
           d == defs[heap[id].mod]
           dd == LeaveDelay(d, delayDepth)
           after == afterParseContent(d, heap[id], store)
           st == [Cur EXCEPT !.delayDepth = dd,
                    !.store = after.store,
                    !.hookLog = Logged(hookLog, d, "afterParseContent", id,
                                       Top.depth, dd, TRUE)]
       IN  IF ~after.asserted THEN Apply(Throw)
           ELSE \E imm \in ImmediateValues(d) : Apply(ExpandBody(st, imm))

\* #expand after the re-parse of the expansion
EXPAND_AFTER_EXPANSION ==
    /\ Running("EXPAND")
    /\ Top.pc = "afterExpansion"
    /\ LET id == Top.node
           n == heap[id]
           ok == ret
           refs == ButLast(referringStack)
           after == afterProcessExpansion(defs[n.mod], n, notes)
           msgs == IF ~ok /\ Top.depth = 0
                   THEN <<ReachedReparseLimitMessage(n.start, n.end - n.start,
                                                     defs[n.mod].name)>>
                   ELSE <<>>
       IN  IF referringStack = <<>> THEN Apply(Throw)
           ELSE Apply(Return([Cur EXCEPT
                    !.referringStack = refs,
                    !.heap = [heap EXCEPT ![id] = after.node],
                    !.notes = after.notes,
                    !.hookLog = Logged(hookLog, defs[n.mod],
                                       "afterProcessExpansion", id,
                                       Top.depth, delayDepth, TRUE),
                    !.store = PopInstantiation(store, defs[n.mod]),
                    !.messages = message(messages, refs, msgs),
                    !.failedRoots = IF Top.depth = 0 /\ limitHits > Top.hits
                                    THEN failedRoots \cup {id}
                                    ELSE failedRoots], ok))

RECURSIVE NextEntity(_, _, _)
\* the index of the first node from i on that is no pre, text or escaped
\* node, or 0
NextEntity(h, nodes, i) ==
    IF i > Len(nodes) THEN 0
    ELSE IF IsLeaf(h[nodes[i]]) THEN NextEntity(h, nodes, i + 1)
    ELSE i

\* a variant of ExceedsLimit without the depth test
ExceedsLimit_never(depth) == FALSE

\* depth > this.cxt.config.reparseDepthLimit
ExceedsLimit(depth) == depth > ReparseDepthLimit

\* #reparse(nodes, depth): the depth test, then the for loop up to the next
\* recursive call or the return
REPARSE ==
    /\ Running("REPARSE")
    /\ IF Top.pc = "start" /\ ExceedsLimit(Top.depth)
       THEN Apply(Return([Cur EXCEPT !.limitHits = limitHits + 1], FALSE))
       ELSE LET ok == IF Top.called THEN ret /\ Top.ok ELSE Top.ok
                j == NextEntity(heap, Top.nodes, Top.idx + 1)
                f == [Top EXCEPT !.pc = "loop", !.ok = ok, !.idx = j,
                                 !.called = TRUE]
            IN  IF j = 0 THEN Apply(Return(Cur, ok))
                ELSE IF heap[Top.nodes[j]].type = "paragraph"
                THEN Apply([Cur EXCEPT !.stack =
                        Call(f, ReparseFrame(heap[Top.nodes[j]].content,
                                             Top.depth + 1))])
                ELSE Apply([Cur EXCEPT !.stack =
                        Call(f, ExpandFrame(Top.nodes[j], Top.depth + 1))])

---------------------------------------------------------------------------
(* Document.toStripped *)

\* Document.toStripped(): a copy of the document is made and stripped; the
\* heap afterwards and the root of the Document returned
toStripped(h) ==
    LET c == cloneNode(h, 1)
    IN  stripDocument(c.heap, c.ids[1])

\* toStripped() on the document parse returned
ToStripped ==
    /\ status = "done"
    /\ Apply([Cur EXCEPT !.status = "stripped",
                         !.heap = toStripped(heap).heap,
                         !.stripped = toStripped(heap).root])

---------------------------------------------------------------------------

Next ==
    \/ DOCUMENT
    \/ BLOCK_ENTITY
    \/ MAYBE_GROUPED_PARAGRAPH
    \/ GROUP_LOOP
    \/ PARAGRAPH
    \/ PARAGRAPH_LOOP
    \/ MODIFIER
    \/ SHORTHAND
    \/ MODIFIER_INLINE_LOOP
    \/ MODIFIER_TAIL
    \/ MODIFIER_RETURN
    \/ INLINE_ENTITY
    \/ PREFORMATTED_INLINE_ENTITY
    \/ PRE_PARAGRAPH
    \/ EXPAND
    \/ EXPAND_AFTER_CONTENT
    \/ EXPAND_AFTER_EXPANSION
    \/ REPARSE
    \/ ToStripped

Spec == Init /\ [][Next]_vars

---------------------------------------------------------------------------
(* Properties *)

NodeIds == 1..Len(heap)

\* the modifier nodes MODIFIER created from the source
ParsedModifiers ==
    { id \in NodeIds : /\ IsModifier(heap[id]) /\ ~heap[id].generated
                       /\ ~heap[id].shorthand }

\* the names of the live registry at the lookup of node n that are a prefix
\* of the input at the name position
Matches(n) == { nm \in n.registered : peek(nm, n.nameStart) }

CountCode(code) ==
    Cardinality({ i \in 1..Len(messages) : messages[i].code = code })

MessagesAt(code, position) ==
    { i \in 1..Len(messages) :
        messages[i].code = code /\ messages[i].position = position }

\* an upper bound of the number of steps parse and toStripped take on s
StepBound(s) == 6 * (Len(s) + 1) * (ReparseDepthLimit + 1)

\* C1: parse terminates: whenever a loop of the parser (document, group,
\* paragraph, inline-modifier body) is about to go round again, and in every
\* round of the preformatted and argument loops, the cursor has moved since
\* the previous round; no #expand or #reparse call is nested deeper than
\* reparseDepthLimit + 1, and none deeper than the limit iterates; the number
\* of steps taken is bounded by a function of the source length and the limit.
C1_Terminates ==
    /\ loopAdvance
    /\ (Running("DOCUMENT") => pos > Top.iterPos)
    /\ (Running("MAYBE_GROUPED_PARAGRAPH") /\ Top.pc = "loop" /\ Top.called
            => pos > Top.iterPos)
    /\ (Running("PARAGRAPH") /\ Top.pc = "loop" /\ ret => pos > Top.iterPos)
    /\ (Running("MODIFIER") /\ Top.pc = "inlineLoop" /\ Top.called /\ ret
            => pos > Top.iterPos)
    /\ \A i \in 1..Len(stack) :
        /\ (stack[i].fn \in {"EXPAND", "REPARSE"}
                => stack[i].depth <= ReparseDepthLimit + 1)
        /\ (stack[i].fn = "REPARSE" /\ stack[i].pc = "loop"
                => stack[i].depth <= ReparseDepthLimit)
    /\ steps <= StepBound(src)
    /\ (status = "running" => stack # <<>>)
    /\ status # "thrown"

\* parse returned after a self-invoking expansion was cut off, and a
\* paragraph was parsed
C1_Witness ==
    /\ status = "done"
    /\ limitHits > 0
    /\ \E id \in NodeIds : heap[id].type = "paragraph"

RECURSIVE MaxLevels(_, _)
RECURSIVE Levels(_, _)
\* the number of nested levels of generated nodes under the expansion of id
Levels(h, id) ==
    IF IsModifier(h[id]) /\ h[id].expanded /\ h[id].expansion # <<>>
    THEN 1 + MaxLevels(h, h[id].expansion)
    ELSE 0

MaxLevels(h, ids) ==
    IF ids = <<>> THEN 0
    ELSE LET a == Levels(h, Head(ids))
             b == MaxLevels(h, Tail(ids))
         IN  IF a > b THEN a ELSE b

\* C2: no expand hook runs at an expansion depth greater than
\* reparseDepthLimit, and a source-level invocation has at most
\* reparseDepthLimit nested levels of generated nodes.
C2_DepthLimit ==
    /\ \A i \in 1..Len(hookLog) :
        hookLog[i].hook = "expand" => hookLog[i].depth <= ReparseDepthLimit
    /\ \A id \in ParsedModifiers : Levels(heap, id) <= ReparseDepthLimit

\* C3: when parse has returned, every depth-0 expansion during which the
\* depth limit was exceeded has exactly one ReachedReparseLimit message, at
\* its node, and there is no other ReachedReparseLimit message.
C3_OneReachedReparseLimit ==
    status = "done" =>
        /\ CountCode("ReachedReparseLimit") = Cardinality(failedRoots)
        /\ \A id \in failedRoots :
            Cardinality(MessagesAt("ReachedReparseLimit", heap[id].start)) = 1

RECURSIVE InterpsLongest(_)
\* every interpolation in content (and in its own argument) opened with
\* the longest interpolator name that is a prefix at its opener
InterpsLongest(content) ==
    \A i \in 1..Len(content) :
        content[i].type = "interp" =>
            LET nm == Interpolators[content[i].definition].name
                o == content[i].arg.start - Len(nm)
            IN  /\ peek(nm, o)
                /\ \A k \in 1..Len(Interpolators) :
                    peek(Interpolators[k].name, o)
                        => Len(Interpolators[k].name) <= Len(nm)
                /\ InterpsLongest(content[i].arg.content)

\* C4: every modifier node parsed where some registered name is a prefix of
\* the input carries the definition of the longest such name, whatever the
\* registration order and also for names registered during this parse; every
\* interpolation in an argument opened with the longest matching opener.
C4_LongestMatch ==
    \A id \in ParsedModifiers :
        LET n == heap[id]
        IN  /\ Matches(n) # {} =>
                /\ defs[n.mod].name \in Matches(n)
                /\ defs[n.mod].kind = n.type
                /\ \A nm \in Matches(n) : Len(nm) <= Len(defs[n.mod].name)
            /\ \A a \in 1..Len(n.arguments) :
                InterpsLongest(n.arguments[a].content)

\* 'ab', registered by define-block during the parse after 'a', was used,
\* and an argument holds an interpolation opened by '$('
C4_Witness ==
    /\ \E id \in ParsedModifiers :
        /\ defs[heap[id].mod].name = NameAB
        /\ defs[heap[id].mod].hooks = "custom"
        /\ NameA \in heap[id].registered
    /\ \E id \in ParsedModifiers :
        \E a \in 1..Len(heap[id].arguments) :
            \E i \in 1..Len(heap[id].arguments[a].content) :
                /\ heap[id].arguments[a].content[i].type = "interp"
                /\ heap[id].arguments[a].content[i].definition = 2

\* the define-block nodes whose expand hook ran with immediate set and
\* registered name nm
ExpandedDefinitions(nm) ==
    { i \in 1..Len(hookLog) :
        /\ hookLog[i].hook = "expand"
        /\ hookLog[i].immediate
        /\ defs[heap[hookLog[i].node].mod].hooks = "define-block"
        /\ heap[hookLog[i].node].state.defined
        /\ heap[hookLog[i].node].state.name.value = nm }

NewHooks == { i \in 1..Len(hookLog') : i > Len(hookLog) }

\* C6: in every step, a prepareExpand or expand hook that runs while
\* delayDepth > 0 belongs to an alwaysTryExpand definition; while
\* delayDepth > 0 no step defines the expansion of a modifier whose definition
\* is not alwaysTryExpand; and #expand entered with delayDepth > 0 for an
\* unexpanded alwaysTryExpand modifier (parsed from the source) runs its
\* expand hook in that very step.
C6_DelayDiscipline ==
    [][ /\ \A i \in NewHooks :
            (hookLog'[i].hook \in {"prepareExpand", "expand"}
                /\ hookLog'[i].delayDepth > 0)
            => defs[heap[hookLog'[i].node].mod].alwaysTryExpand
        /\ delayDepth > 0 =>
            \A id \in NodeIds :
                (IsModifier(heap[id]) /\ ~defs[heap[id].mod].alwaysTryExpand)
                => heap'[id].expanded = heap[id].expanded
        /\ (Running("EXPAND") /\ Top.pc = "start" /\ Top.depth = 0
                /\ delayDepth > 0 /\ ~heap[Top.node].expanded
                /\ defs[heap[Top.node].mod].alwaysTryExpand)
            => \E i \in NewHooks :
                    /\ hookLog'[i].hook = "expand"
                    /\ hookLog'[i].node = Top.node
                    /\ hookLog'[i].delayDepth > 0
      ]_vars

\* inside the content of a delaying modifier, a define-block was expanded
\* while a modifier with an expand hook next to it was left unexpanded
C6_Witness ==
    /\ delayDepth > 0
    /\ \E i \in 1..Len(hookLog) :
        /\ hookLog[i].hook = "expand"
        /\ hookLog[i].delayDepth > 0
    /\ \E id \in ParsedModifiers :
        /\ defs[heap[id].mod].hooks = "rec"
        /\ ~heap[id].expanded
        /\ \A i \in 1..Len(stack) : stack[i].node # id

\* the calls on the stack that have incremented delayDepth and not yet
\* decremented it: MODIFIER between the creation of the node and the end of
\* its content, #expand during the simulated parse of generated content
DelayingFrames ==
    { i \in 1..Len(stack) :
        /\ \/ stack[i].fn = "MODIFIER"
              /\ stack[i].pc \in {"inlineLoop", "endBlock", "tail"}
           \/ stack[i].fn = "EXPAND" /\ stack[i].pc = "afterContent"
        /\ defs[heap[stack[i].node].mod].delayContentExpansion }

\* C7: delayDepth is never negative and equals the number of
\* delayContentExpansion modifiers whose content is being parsed or
\* re-parsed; it is 0 when parse has returned.
C7_DelayDepthBalanced ==
    /\ delayDepth >= 0
    /\ delayDepth = Cardinality(DelayingFrames)
    /\ (status \in {"done", "stripped"} => delayDepth = 0)

\* parse returned from a source with a delaying inline modifier left
\* unclosed inside the content of a delaying block
C7_Witness ==
    /\ status = "done"
    /\ delayDepth = 0
    /\ \E i \in 1..Len(messages) :
        /\ messages[i].code = "UnclosedInlineModifier"
        /\ messages[i].info = NameD
    /\ \E id \in ParsedModifiers :
        /\ heap[id].type = "block"
        /\ defs[heap[id].mod].delayContentExpansion

\* C8: a modifier parsed where no registered name matches and a ']' follows
\* has its head end right after that ']', carries the UNKNOWN definition of
\* its kind, is no marker, has exactly one UnknownModifier message, which
\* starts at the opener and reaches to the ']', and once its parse is
\* complete its content begins with the entity that follows the head.
C8_UnknownModifier ==
    status \in {"running", "done"} =>
    \A id \in ParsedModifiers :
        LET n == heap[id]
            close == indexOf(MODIFIER_CLOSE_SIGN, n.nameStart)
            p == WHITESPACES_OR_NEWLINES(n.headEnd)
        IN  (Matches(n) = {} /\ close >= 0) =>
                /\ n.mod = UnknownModifier(n.type)
                /\ defs[n.mod].name = NameUnknown
                /\ n.headEnd = close + 1
                /\ ~n.marker
                /\ Cardinality(MessagesAt("UnknownModifier", n.start)) = 1
                /\ \A i \in MessagesAt("UnknownModifier", n.start) :
                        messages[i].length = close - n.start
                /\ (n.type = "block" /\ n.end >= 0 /\ ~isEOF(p)
                        /\ ~peek(GROUP_BEGIN, p))
                    => /\ n.content # <<>>
                       /\ heap[n.content[1]].start = p
                /\ (n.type = "inline" /\ n.end >= 0 /\ ~isEOF(n.headEnd)
                        /\ charAt(n.headEnd) = "t")
                    => /\ n.content # <<>>
                       /\ heap[n.content[1]].type = "text"
                       /\ heap[n.content[1]].start = n.headEnd

\* parse returned with an unknown block modifier that holds a paragraph and
\* an unknown inline modifier that holds text
C8_Witness ==
    /\ status = "done"
    /\ \E id \in ParsedModifiers :
        /\ heap[id].mod = UnknownModifier("block")
        /\ heap[id].content # <<>>
        /\ heap[heap[id].content[1]].type = "paragraph"
    /\ \E id \in ParsedModifiers :
        /\ heap[id].mod = UnknownModifier("inline")
        /\ heap[id].content # <<>>

\* sources made of an unknown block modifier, optional white space and text
UnknownThenText ==
    { u \o w \o t :
        u \in { <<"[", ".", "u", "]">>, <<"[", ".", "x", ";", "]">> },
        w \in { <<>>, <<" ">>, <<"\n">> },
        t \in { <<"t">>, <<"t", "t">> } }

\* the text of such a source: what follows the head, white space removed
TextOf(s) == SubSeq(s, WHITESPACES_OR_NEWLINES(indexOf(<<"]">>, 0) + 1) + 1, Len(s))

\* node id is a paragraph that holds exactly one text node with text
IsParagraphOfText(id, text) ==
    /\ heap[id].type = "paragraph"
    /\ Len(heap[id].content) = 1
    /\ heap[heap[id].content[1]].type = "text"
    /\ heap[heap[id].content[1]].text = text

OneUnknownModifierMessage ==
    /\ Len(messages) = 1
    /\ messages[1].code = "UnknownModifier"
    /\ messages[1].position = 0

RECURSIVE Replacement(_, _)
RECURSIVE Replacements(_, _)
\* the nodes that stand for node id of document h once stripped
Replacement(h, id) ==
    CASE IsLeaf(h[id]) -> <<id>>
      [] h[id].type = "system" -> <<>>
      [] h[id].type \in {"block", "inline"} /\ h[id].expanded ->
            Replacements(h, h[id].expansion)
      [] OTHER -> <<id>>

Replacements(h, ids) ==
    IF ids = <<>> THEN <<>>
    ELSE Replacement(h, Head(ids)) \o Replacements(h, Tail(ids))

RECURSIVE Reachable(_, _)
RECURSIVE ReachableAll(_, _)
\* the nodes reachable from id through content
Reachable(h, id) == {id} \cup ReachableAll(h, h[id].content)

ReachableAll(h, ids) ==
    IF ids = <<>> THEN {}
    ELSE Reachable(h, Head(ids)) \cup ReachableAll(h, Tail(ids))

\* the nodes the nodes ids were cloned from
Origins(h, ids) == [i \in 1..Len(ids) |-> h[ids[i]].origin]

\* C10: toStripped leaves no system modifier and no modifier with a defined
\* expansion reachable from the root of the document it returns; the content
\* of every node it keeps is the content of the node it stands for with
\* every expanded block or inline modifier replaced, in place and in order,
\* by the stripped nodes of its expansion and every system modifier removed;
\* text, escaped and preformatted nodes are unchanged.
C10_Stripped ==
    [][ (status = "done" /\ status' = "stripped") =>
            /\ heap'[stripped'].origin = 1
            /\ \A id \in Reachable(heap', stripped') :
                /\ heap'[id].type # "system"
                /\ heap'[id].type \in {"block", "inline"}
                        => ~heap'[id].expanded
                /\ heap'[id].origin \in 1..Len(heap)
                /\ IsLeaf(heap'[id]) =>
                        heap'[id] = [heap[heap'[id].origin] EXCEPT
                                        !.generated = TRUE,
                                        !.origin = heap'[id].origin]
                /\ ~IsLeaf(heap'[id]) =>
                        /\ Origins(heap', heap'[id].content) =
                                Replacements(heap, heap[heap'[id].origin].content)
                        /\ heap'[id].type = heap[heap'[id].origin].type
                        /\ heap'[id].mod = heap[heap'[id].origin].mod
                        /\ heap'[id].start = heap[heap'[id].origin].start
                        /\ heap'[id].end = heap[heap'[id].origin].end
      ]_vars

\* a stripped document in which the text generated by the expansion of a
\* user-defined modifier stands where the modifier was, after a dropped
\* system modifier
C10_Witness ==
    /\ status = "stripped"
    /\ heap[stripped].content # <<>>
    /\ \A i \in 1..Len(heap[stripped].content) :
            heap[heap[heap[stripped].content[i]].origin].generated
    /\ \E id \in ParsedModifiers : heap[id].type = "system"
    /\ \E id \in Reachable(heap, stripped) : heap[id].type = "text"

RECURSIVE Owned(_, _)
RECURSIVE OwnedAll(_, _)
\* the nodes reachable from id through content and expansion
Owned(h, id) ==
    {id} \cup OwnedAll(h, h[id].content) \cup OwnedAll(h, h[id].expansion)

OwnedAll(h, ids) ==
    IF ids = <<>> THEN {}
    ELSE Owned(h, Head(ids)) \cup OwnedAll(h, Tail(ids))

RECURSIVE OpenReferralsOf(_, _)
\* the expansion sites of the #expand activations of call stack stk that are
\* between pushReferring and popReferring, outermost first
OpenReferralsOf(stk, h) ==
    IF stk = <<>> THEN <<>>
    ELSE IF Head(stk).fn = "EXPAND" /\ Head(stk).pc = "afterExpansion"
    THEN <<[start |-> h[Head(stk).node].start, end |-> h[Head(stk).node].end]>>
         \o OpenReferralsOf(Tail(stk), h)
    ELSE OpenReferralsOf(Tail(stk), h)

\* C12: the referral stack holds exactly the sites of the open expansion
\* frames, outermost first, so it is empty when parse returns; every message
\* a step emits carries one ReferredMessage layer per open expansion frame,
\* the innermost site wrapped first and the outermost site last (the
\* outermost layer), and none when no expansion frame is open.  The step
\* that leaves an expansion frame emits after its pop.
C12_ReferredLayers ==
    [][ /\ referringStack' = OpenReferralsOf(stack', heap')
        /\ status' = "done" => referringStack' = <<>>
        /\ \A i \in (Len(messages) + 1)..Len(messages') :
              messages'[i].refs =
                 IF Top.fn = "EXPAND" /\ Top.pc = "afterExpansion"
                 THEN Reverse(OpenReferralsOf(stack', heap'))
                 ELSE Reverse(OpenReferralsOf(stack, heap))
      ]_vars

\* a message was emitted under two open expansion frames of different sites
\* and carries both, the outer site as the outermost layer
C12_Witness ==
    \E i \in 1..Len(messages) :
        /\ Len(messages[i].refs) = 2
        /\ messages[i].refs[1] # messages[i].refs[2]
        /\ messages[i].refs[2].start < messages[i].refs[1].start

\* C13: parse never throws and returns with the scanner at EOF: no
\* assertion of the parser, of its emit environment or of a hook fails, the
\* block stack always holds the root at its bottom, and when parse returns
\* the cursor is at the end of the source, the call stack is empty, the
\* block stack holds the root only and the inline stack is empty; syntax
\* errors and a reached depth limit show as messages only.
C13_NeverThrows ==
    /\ status # "thrown"
    /\ blockStack # <<>> /\ blockStack[1] = 1
    /\ status = "done" =>
            /\ pos = Len(src)
            /\ stack = <<>>
            /\ blockStack = <<1>>
            /\ inlineStack = <<>>
            /\ referringStack = <<>>

\* parse returned a document for a source with an unclosed inline modifier
\* and a self-expanding modifier that reached the depth limit
C13_Witness ==
    /\ status = "done"
    /\ CountCode("UnclosedInlineModifier") > 0
    /\ CountCode("ReachedReparseLimit") > 0
    /\ limitHits > 0

\* start <= end for an argument and every entity in it, and every entity
\* (and the argument of an interpolation) lies within what holds it
RECURSIVE ArgumentInRange(_)
ArgumentInRange(arg) ==
    /\ arg.start <= arg.end
    /\ \A i \in 1..Len(arg.content) :
          LET e == arg.content[i]
          IN  /\ e.start <= e.end
              /\ arg.start <= e.start /\ e.end <= arg.end
              /\ e.type = "interp" =>
                    /\ e.arg.start <= e.arg.end
                    /\ e.start <= e.arg.start /\ e.arg.end <= e.end

\* C14 as stated: when parse returns, every node below the root has
\* start <= end, marker modifiers and the nodes inside arguments included,
\* and the range of every child (content node or argument) lies within the
\* range of its parent.
C14_Ranges ==
    status = "done" =>
        \A id \in Reachable(heap, 1) \ {1} :
            /\ heap[id].start <= heap[id].end
            /\ \A i \in 1..Len(heap[id].content) :
                  /\ heap[id].start <= heap[heap[id].content[i]].start
                  /\ heap[heap[id].content[i]].end <= heap[id].end
            /\ \A i \in 1..Len(heap[id].arguments) :
                  /\ ArgumentInRange(heap[id].arguments[i])
                  /\ heap[id].start <= heap[id].arguments[i].start
                  /\ heap[id].arguments[i].end <= heap[id].end

\* the hooks of the step that are an expand hook of define-block run with
\* immediate set on a node whose arguments beforeParseContent accepted
DefineRuns ==
    { i \in NewHooks :
        /\ hookLog'[i].hook = "expand"
        /\ hookLog'[i].immediate
        /\ defs[heap[hookLog'[i].node].mod].hooks = "define-block"
        /\ heap[hookLog'[i].node].state.defined }

\* the hooks of the step that are an expand hook of a shorthand definition
\* run with immediate set on a node whose arguments beforeParseContent
\* accepted
ShorthandRuns(hooks) ==
    { i \in NewHooks :
        /\ hookLog'[i].hook = "expand"
        /\ hookLog'[i].immediate
        /\ defs[heap'[hookLog'[i].node].mod].hooks = hooks
        /\ heap'[hookLog'[i].node].state.defined }

\* the messages of the step that have the given code
NewMessages(code) ==
    { j \in 1..Len(messages') : j > Len(messages) /\ messages'[j].code = code }

UniqueNames(entries) ==
    \A i, j \in 1..Len(entries) : entries[i][1] = entries[j][1] => i = j

\* each registry and each shorthand set of cfg holds a name at most once
AllUnique(cfg) ==
    /\ UniqueNames(cfg.blockModifiers)
    /\ UniqueNames(cfg.inlineModifiers)
    /\ UniqueNames(cfg.systemModifiers)
    /\ UniqueNames(cfg.blockShorthands)
    /\ UniqueNames(cfg.inlineShorthands)

\* the entries of entries under name
EntriesOf(entries, name) ==
    { k \in 1..Len(entries) : entries[k][1] = name }

ExpandedWith(hooks, name) ==
    { hookLog[i].node : i \in { k \in 1..Len(hookLog) :
        /\ hookLog[k].hook = "expand"
        /\ hookLog[k].immediate
        /\ defs[heap[hookLog[k].node].mod].hooks = hooks
        /\ heap[hookLog[k].node].state.defined
        /\ heap[hookLog[k].node].state.name = [defined |-> TRUE, value |-> name] } }

RECURSIVE OpenNodes(_, _, _)
\* the nodes whose beforeParseContent ran and whose afterParseContent has
\* not, innermost last, from entry i of log on with open so far; <<0>> when
\* an afterParseContent ran on a node that is not the innermost open one
OpenNodes(log, i, open) ==
    IF i > Len(log) THEN open
    ELSE IF log[i].hook = "beforeParseContent"
    THEN OpenNodes(log, i + 1, Append(open, log[i].node))
    ELSE IF log[i].hook = "afterParseContent"
    THEN IF open # <<>> /\ Last(open) = log[i].node
         THEN OpenNodes(log, i + 1, ButLast(open))
         ELSE <<0>>
    ELSE OpenNodes(log, i + 1, open)

\* whether the definition node n has a slot name to push onto the stack of
\* the given kind: a define-block and a block-shorthand use the block stack,
\* an inline-shorthand the inline stack; a node whose arguments were refused
\* and a shorthand without a slot have none
PushesOnto(kind, n) ==
    /\ n.state.defined
    /\ CASE defs[n.mod].hooks = "define-block" -> kind = "block"
         [] defs[n.mod].hooks = "block-shorthand" ->
                kind = "block" /\ n.state.slotDefined
         [] defs[n.mod].hooks = "inline-shorthand" ->
                kind = "inline" /\ n.state.slotDefined
         [] OTHER -> FALSE

\* the slot names of the open nodes that push onto the stack of kind
OpenSlots(kind, open) ==
    LET pushers == SelectSeq(open, LAMBDA id : PushesOnto(kind, heap[id]))
    IN  [k \in 1..Len(pushers) |-> heap[pushers[k]].state.slotName]

SlotNames(slots) == [k \in 1..Len(slots) |-> slots[k].slotName]

\* C17: beforeParseContent and afterParseContent of the definitions run as
\* matched pairs that nest; at every moment each delayed slot stack holds
\* exactly the slot names of the definitions that are open and have one, in
\* the order they were opened (so each pop removes what the same node
\* pushed); no assertion fails; and both stacks are empty when parse has
\* returned.
C17_SlotStacks ==
    /\ status # "thrown"
    /\ OpenNodes(hookLog, 1, <<>>) # <<0>>
    /\ SlotNames(store.blockSlotDelayedStack) =
            OpenSlots("block", OpenNodes(hookLog, 1, <<>>))
    /\ SlotNames(store.inlineSlotDelayedStack) =
            OpenSlots("inline", OpenNodes(hookLog, 1, <<>>))
    /\ status \in {"done", "stripped"} => store = InitStore

\* a define-block with a slot is open inside a block-shorthand with a slot,
\* both in generated content that is being re-parsed
C17_Witness ==
    /\ hookLog # <<>>
    /\ hookLog[Len(hookLog)].hook = "beforeParseContent"
    /\ hookLog[Len(hookLog)].depth > 0
    /\ Len(store.blockSlotDelayedStack) = 2
    /\ store.blockSlotDelayedStack[1].kind = "signature"
    /\ store.blockSlotDelayedStack[2].kind = "string"
    /\ store.blockSlotDelayedStack[2].slotName = <<"s">>

\* the paragraphs of the document that are no part of another block
TopParagraphs ==
    { heap[1].content[i] : i \in { k \in 1..Len(heap[1].content) :
                                     heap[heap[1].content[k]].type = "paragraph" } }

\* whether node id is the use of an inline shorthand that was defined with
\* a name only (with a body, or in marker form)
IsPlainUse(id) ==
    /\ heap[id].shorthand
    /\ heap[id].type = "inline"
    /\ heap[id].arguments = <<>>
    /\ defs[heap[id].mod].flags = "Marker"

AllLeaves(ids) == \A i \in 1..Len(ids) : IsLeaf(heap[ids[i]])

RECURSIVE Texts(_)
\* the text of the leaves ids, one after the other
Texts(ids) ==
    IF ids = <<>> THEN <<>> ELSE heap[Head(ids)].text \o Texts(Tail(ids))

RECURSIVE Replaced(_)
\* the text of ids where each use of a shorthand stands for the inline
\* content of the body of its definition
Replaced(ids) ==
    IF ids = <<>> THEN <<>>
    ELSE (IF IsPlainUse(Head(ids)) THEN Texts(defs[heap[Head(ids)].mod].body)
          ELSE heap[Head(ids)].text) \o Replaced(Tail(ids))

\* a paragraph of text and of uses of name-only shorthands whose body is text
IsPlainParagraph(id) ==
    \A i \in 1..Len(heap[id].content) :
        LET c == heap[id].content[i]
        IN  \/ IsLeaf(heap[c])
            \/ IsPlainUse(c) /\ AllLeaves(defs[heap[c].mod].body)

\* the top-level inline-shorthand definitions that were expanded with
\* immediate set and end before position p
DefinedBefore(p) ==
    { id \in NodeIds :
        /\ \E i \in 1..Len(heap[1].content) : heap[1].content[i] = id
        /\ heap[id].type = "system"
        /\ defs[heap[id].mod].hooks = "inline-shorthand"
        /\ heap[id].state.defined
        /\ heap[id].state.name.value # <<>>
        /\ heap[id].expanded
        /\ heap[id].end >= 0 /\ heap[id].end <= p }

RECURSIVE Shape(_)
\* the shape of node id: its type, and its children or its text
Shape(id) ==
    IF IsLeaf(heap[id]) THEN <<heap[id].type, heap[id].text>>
    ELSE <<heap[id].type,
           [i \in 1..Len(heap[id].content) |-> Shape(heap[id].content[i])]>>

AskedNames(n) ==
    IF defs[n.mod].hooks = "getvar"
    THEN IF n.arguments # <<>> /\ ArgumentExpansion(n.arguments[1]).defined
         THEN {ArgumentExpansion(n.arguments[1]).value} ELSE {}
    ELSE IF /\ Len(n.arguments) = 1
            /\ Len(n.arguments[1].content) = 1
            /\ n.arguments[1].content[1].type = "interp"
    THEN {ConcatContents(n.arguments[1].content[1].arg.content)}
    ELSE {}

\* the expand hooks of the step that ran on a '$' or a 'print' node
ValueRuns ==
    { i \in NewHooks :
        /\ hookLog'[i].hook = "expand"
        /\ defs[heap[hookLog'[i].node].mod].hooks \in {"getvar", "print"} }

OpenGroups ==
    Cardinality({ i \in 1..Len(stack) :
        stack[i].fn = "MAYBE_GROUPED_PARAGRAPH" /\ stack[i].pc = "loop" })

\* C20: groupDepth equals the number of open groups and is never negative,
\* and ':--\nhello\n--:\nworld' gives two Paragraphs, 'hello' and 'world',
\* without messages.
C20_GroupDepth ==
    /\ groupDepth >= 0
    /\ status = "running" => groupDepth = OpenGroups
    /\ (src = Scenario6 /\ status = "stripped") =>
          /\ Shape(stripped) =
                <<"root", <<<<"paragraph",
                              <<<<"text", <<"h", "e", "l", "l", "o">>>>>>>>,
                            <<"paragraph",
                              <<<<"text", <<"w", "o", "r", "l", "d">>>>>>>>>>>>
          /\ messages = <<>>

\* whether the cursor is at the newline in front of a line that starts
\* with '--:' while a paragraph is read
AtGroupEndLine ==
    /\ Running("INLINE_ENTITY") \/ Running("PREFORMATTED_INLINE_ENTITY")
    /\ peek(<<"\n">>, pos)
    /\ peek(GROUP_END, acceptWhitespaces(pos + 1))

\* C20 (amended): inside a group a paragraph ends at a line that starts
\* with '--:' without a message and with the cursor in front of the '--:';
\* the group loop that finds '--:' leaves the innermost open group and takes
\* one from groupDepth; outside every group the line goes on as text of the
\* paragraph; groupDepth is never negative and, as long as input remains,
\* equals the number of open groups (at the end of input inside a group it
\* is not taken back and is at least that number); and
\* ':--\nhello\n--:\nworld' gives two Paragraphs, 'hello' and 'world',
\* without messages.
C20_Groups ==
    /\ [](/\ groupDepth >= 0
          /\ status = "running" =>
                /\ groupDepth >= OpenGroups
                /\ ~isEOF(pos) => groupDepth = OpenGroups
          /\ (src = Scenario6 /\ status = "stripped") =>
                /\ Shape(stripped) =
                      <<"root", <<<<"paragraph",
                                    <<<<"text", <<"h", "e", "l", "l", "o">>>>>>>>,
                                  <<"paragraph",
                                    <<<<"text", <<"w", "o", "r", "l", "d">>>>>>>>>>>>
                /\ messages = <<>>)
    /\ [][ /\ (AtGroupEndLine /\ groupDepth > 0) =>
                /\ status' = "running"
                /\ messages' = messages
                /\ ret' = FALSE
                /\ pos' = acceptWhitespaces(pos + 1)
                /\ groupDepth' = groupDepth
           /\ (AtGroupEndLine /\ groupDepth = 0) =>
                /\ status' = "running"
                /\ messages' = messages
                /\ ret' = TRUE
                /\ pos' = acceptWhitespaces(pos + 1)
                /\ inlineStack' = inlineStack
                /\ (Texts(heap[Last(inlineStack)].content))' =
                        Texts(heap[Last(inlineStack)].content) \o <<"\n">>
           /\ (/\ Running("MAYBE_GROUPED_PARAGRAPH")
               /\ Top.pc = "loop"
               /\ pos' > pos
               /\ peek(GROUP_END, pos' - Len(GROUP_END))
               /\ Len(stack') < Len(stack)) =>
                /\ groupDepth' = groupDepth - 1
                /\ stack' = ButLast(stack)
                /\ OpenGroups' = OpenGroups - 1
                /\ messages' = messages
         ]_vars

\* ':--\nhello\n--:\nworld' has been parsed and stripped: the paragraph
\* 'hello' ended at the '--:' and the group was closed
C20_Witness ==
    /\ src = Scenario6
    /\ status = "stripped"
    /\ groupDepth = 0
    /\ Len(heap[stripped].content) = 2

---------------------------------------------------------------------------
(* The host: parses on clones of TestConfig *)

NameNormal == <<"n", "o", "r", "m", "a", "l">>

RECURSIVE Tree(_)
\* what toMatchObject compares of the node id of a Document: its type, the
\* name of its modifier, and its text or its children
Tree(id) ==
    IF IsLeaf(heap[id]) THEN <<heap[id].type, heap[id].text>>
    ELSE <<heap[id].type,
           IF IsModifier(heap[id]) THEN defs[heap[id].mod].name ELSE <<>>,
           [i \in 1..Len(heap[id].content) |-> Tree(heap[id].content[i])]>>

\* parse(src) of the test helper, called a second time on the same source:
\* a clone of TestConfig, a new ParseContext, a new Parser
parse ==
    /\ status = "stripped"
    /\ ~first.defined
    /\ LET c == from(configurations, 1)
           cfg == c.configurations[c.id]
       IN  Apply([Cur EXCEPT
                    !.configurations = c.configurations,
                    !.cxt = c.id,
                    !.config = cfg,
                    !.prefixes = sortModifiers(cfg),
                    !.pos = 0,
                    !.heap = <<RootNode>>,
                    !.blockStack = <<1>>,
                    !.inlineStack = <<>>,
                    !.referringStack = <<>>,
                    !.messages = <<>>,
                    !.groupDepth = 0,
                    !.delayDepth = 0,
                    !.store = InitStore,
                    !.notes = <<>>,
                    !.stack = <<Frame("DOCUMENT")>>,
                    !.ret = TRUE,
                    !.status = "running",
                    !.stripped = 0,
                    !.hookLog = <<>>,
                    !.limitHits = 0,
                    !.failedRoots = {},
                    !.loopAdvance = TRUE,
                    !.steps = 0,
                    !.first = [defined |-> TRUE, messages |-> messages,
                               root |-> Tree(stripped),
                               hookLog |-> hookLog]])

\* TestConfig.blockModifiers.add(new BlockModifierDefinition('normal', ...))
\* after the parses
TestConfigAdd ==
    /\ status = "stripped"
    /\ first.defined
    /\ ~has(configurations[1].blockModifiers, NameNormal)
    /\ LET cs == [configurations EXCEPT ![1].blockModifiers =
                    add(@, NameNormal, Len(defs) + 1)]
       IN  Apply([Cur EXCEPT
                    !.defs = Append(defs, Definition(NameNormal, "block",
                                                     "Normal", "none")),
                    !.configurations = cs,
                    !.config = cs[cxt]])

NextClones ==
    \/ Next
    \/ parse
    \/ TestConfigAdd

\* a preformatted block with content
PreformattedBlock == <<"[", ".", "p", "]", "t">>

\* the sources that are parsed twice: the definitions of shorthands and of
\* modifiers, what they are used in, and uses of them
CloneSources ==
    Concatenations(ShorthandItems) \cup Scenarios \cup {PreformattedBlock}

InitClones == Init /\ src \in CloneSources

SpecClones == InitClones /\ [][NextClones]_vars

---------------------------------------------------------------------------
(* The order of the lifecycle hooks *)

HookRank(hook) ==
    CASE hook = "beforeParseContent" -> 1
      [] hook = "afterParseContent" -> 2
      [] hook = "prepareExpand" -> 3
      [] hook = "expand" -> 4
      [] hook = "beforeProcessExpansion" -> 5
      [] OTHER -> 6

\* the hook calls of node n, in order
NodeLog(n) == SelectSeq(hookLog, LAMBDA e : e.node = n)

\* the hooks of d of the ranks from lo to hi
HooksFrom(d, lo, hi) ==
    { h \in HooksOf(d) : HookRank(h) >= lo /\ HookRank(h) <= hi }

\* the one of hooks which is the first in the order, or the last
FirstHook(hooks) ==
    { h \in hooks : \A g \in hooks : HookRank(h) <= HookRank(g) }
LastHook(hooks) ==
    { h \in hooks : \A g \in hooks : HookRank(h) >= HookRank(g) }

\* with what a call of #expand or the parse of a modifier may begin: the
\* first hook, or prepareExpand or what follows it when no content is parsed
Starts(d) == FirstHook(HooksOf(d)) \cup FirstHook(HooksFrom(d, 3, 6))

\* with what it may end: afterParseContent when the expansion is delayed,
\* expand (or prepareExpand) when there is nothing to re-parse, and
\* afterProcessExpansion
Ends(d) ==
    (HooksOf(d) \cap {"afterParseContent", "afterProcessExpansion"})
        \cup LastHook(HooksFrom(d, 1, 4))

\* hook g of d may be the next one of a node after hook h
MayFollow(d, h, g) ==
    \/ g \in FirstHook(HooksFrom(d, HookRank(h) + 1, 6))
    \/ h \in Ends(d) /\ g \in Starts(d)

\* the entries of the hook log a step adds
Added == { i \in 1..Len(hookLog') : i > Len(hookLog) }

---------------------------------------------------------------------------
(* Undefined expansions *)

\* whether the running step of #expand is the one that calls prepareExpand
\* and expand
AtExpandStep ==
    /\ Running("EXPAND")
    /\ \/ Top.pc = "afterContent"
       \/ /\ Top.pc = "start"
          /\ ~heap[Top.node].expanded
          /\ ~ShouldDelay(defs[heap[Top.node].mod])
          /\ ~(heap[Top.node].content # <<>> /\ Top.depth > 0)

\* C23: when the expansion of the node is undefined after the step of
\* #expand that calls prepareExpand and expand (the definition has no
\* expand hook, or the hook returned undefined), #expand returns true in
\* that step: nothing is pushed onto the referring stack, no re-parse of
\* the content begins and beforeProcessExpansion is not called.
C23_UndefinedExpansion ==
    [][ AtExpandStep /\ status' = "running" /\ ~heap'[Top.node].expanded =>
            /\ Len(stack') = Len(stack) - 1
            /\ ret'
            /\ referringStack' = referringStack
            /\ \A i \in Added : hookLog'[i].hook # "beforeProcessExpansion"
      ]_vars

---------------------------------------------------------------------------
(* The arguments of a modifier head *)

MaxHeadItems == 5

\* the characters a head is made of
HeadChars == { ":", "x", "\\", " ", "$", "(", ")", ";", "]" }

\* the opener and the name of block a
InitHeads == src = <<"[", ".", "a">> /\ Constructed

\* one more character of the head is written, at most MaxHeadItems of them,
\* before the parse begins
HeadWritten ==
    /\ status = "running" /\ steps = 0
    /\ Len(src) < 3 + MaxHeadItems
    /\ \E c \in HeadChars : src' = Append(src, c)
    /\ UNCHANGED <<pos, heap, defs, config, prefixes, blockStack, inlineStack,
                   referringStack, messages, groupDepth, delayDepth, store,
                   stack, ret, status, stripped, hookLog, limitHits,
                   failedRoots, loopAdvance, steps, configurations, cxt,
                   first, notes, fixed>>

\* the parse up to the head of the first modifier
NextHeads ==
    \/ HeadWritten
    \/ DOCUMENT
    \/ BLOCK_ENTITY
    \/ MODIFIER

SpecHeads == InitHeads /\ [][NextHeads]_vars

\* the opener of an interpolation at i: the longest that matches, or <<>>
OpenerAt(i) ==
    IF peek(<<"$", "(">>, i) THEN <<"$", "(">>
    ELSE IF peek(<<"$">>, i) THEN <<"$">> ELSE <<>>

AtHeadEnd(i) ==
    isEOF(i) \/ peek(MODIFIER_END_SIGN, i) \/ peek(MODIFIER_CLOSE_SIGN, i)

RECURSIVE SkipInterpolation(_)
\* the position after the ')' that closes the interpolation whose text
\* begins at i, or -1 when the head ends or a ':' comes before it
SkipInterpolation(i) ==
    IF peek(<<")">>, i) THEN i + 1
    ELSE IF AtHeadEnd(i) \/ peek(<<":">>, i) THEN -1
    ELSE IF peek(<<"\\">>, i)
    THEN IF isEOF(i + 1) THEN -1 ELSE SkipInterpolation(i + 2)
    ELSE IF OpenerAt(i) # <<>>
    THEN LET j == SkipInterpolation(i + Len(OpenerAt(i)))
         IN  IF j < 0 THEN -1 ELSE SkipInterpolation(j)
    ELSE SkipInterpolation(i + 1)

RECURSIVE Segments(_, _, _)
\* the segments of the argument text from i on, as pairs of the positions
\* where each begins and ends: a segment ends at an unescaped ':' outside
\* every interpolation, the last one where the head ends; begin is where
\* the running segment began
Segments(i, begin, done) ==
    IF AtHeadEnd(i) THEN Append(done, <<begin, i>>)
    ELSE IF peek(<<":">>, i)
    THEN Segments(i + 1, i + 1, Append(done, <<begin, i>>))
    ELSE IF peek(<<"\\">>, i)
    THEN IF isEOF(i + 1) THEN Append(done, <<begin, i + 1>>)
         ELSE Segments(i + 2, begin, done)
    ELSE IF OpenerAt(i) # <<>>
    THEN LET j == SkipInterpolation(i + Len(OpenerAt(i)))
         IN  IF j < 0 THEN Append(done, <<begin, i + 1>>)
             ELSE Segments(j, begin, done)
    ELSE Segments(i + 1, begin, done)

\* the segments of the head whose argument text begins at p, after the name
HeadSegments(p) ==
    LET leading == peek(<<":">>, p)
        p1 == IF leading THEN p + 1 ELSE WHITESPACES_OR_NEWLINES(p)
        segs == Segments(p1, p1, <<>>)
    IN  IF ~leading /\ segs = <<<<p1, p1>>>> THEN <<>> ELSE segs

\* the modifier nodes MODIFIER made of the head of a known name
HeadNodes ==
    { id \in 1..Len(heap) :
        /\ IsModifier(heap[id])
        /\ heap[id].mod > 3
        /\ ~heap[id].generated /\ ~heap[id].shorthand
        /\ heap[id].origin = 0 }

\* C24: the arguments of a modifier are the segments of its head: none for
\* a head with no ':' and no argument text, one empty argument for a head
\* of a ':' alone, and otherwise one more than the unescaped ':' outside
\* interpolations after the optional first ':'; an argument is empty
\* exactly when its segment is.
C24_ArgumentCount ==
    \A id \in HeadNodes :
        LET n == heap[id]
            p == n.nameStart + Len(defs[n.mod].name)
            segs == HeadSegments(p)
        IN  /\ Len(n.arguments) = Len(segs)
            /\ \A k \in 1..Len(segs) :
                  (n.arguments[k].content = <<>>) <=> (segs[k][1] = segs[k][2])
            /\ (~peek(<<":">>, p) /\ AtHeadEnd(WHITESPACES_OR_NEWLINES(p)))
                  => n.arguments = <<>>
            /\ (peek(<<":">>, p) /\ AtHeadEnd(p + 1))
                  => Len(n.arguments) = 1 /\ n.arguments[1].content = <<>>

\* a head of a first ':', an empty segment, a segment of text and an empty
\* last segment: three arguments
C24_Witness ==
    /\ src = <<"[", ".", "a", ":", ":", "x", ":", "]">>
    /\ HeadNodes # {}
    /\ \A id \in HeadNodes :
          /\ Len(heap[id].arguments) = 3
          /\ heap[id].arguments[1].content = <<>>
          /\ heap[id].arguments[2].content # <<>>
          /\ heap[id].arguments[3].content = <<>>

---------------------------------------------------------------------------
(* Preformatted modifiers *)

\* the modifier nodes of kind type that MODIFIER made of a Preformatted
\* definition and parsed the content of
PreformattedNodes(type) ==
    { id \in 1..Len(heap) :
        /\ heap[id].type = type
        /\ defs[heap[id].mod].flags = "Preformatted"
        /\ ~heap[id].marker /\ ~heap[id].generated /\ heap[id].origin = 0
        /\ heap[id].end >= 0 }

\* the characters of the source from position a up to position b
Between(a, b) == SubSeq(src, a + 1, b)

\* C25: when parse has returned, the content of an inline Preformatted
\* modifier is text only, namely every character of the source between its
\* head and its end, and it ends after the closing tag '[;]' (or where the
\* source ends); the content of a block Preformatted modifier is one pre
\* node whose text is every character of its content range, and after it
\* comes a blank line (or '--:' when it began with ':--') or the end of the
\* source.
C25_Preformatted ==
    status = "done" =>
        /\ \A id \in PreformattedNodes("inline") :
              LET n == heap[id]
                  closed == n.end >= 3
                            /\ peek(MODIFIER_INLINE_END_TAG, n.end - 3)
                  tail == IF closed THEN n.end - 3 ELSE n.end
              IN  /\ closed \/ isEOF(n.end)
                  /\ \A i \in 1..Len(n.content) :
                        heap[n.content[i]].type = "text"
                  /\ Texts(n.content) = Between(n.headEnd, tail)
        /\ \A id \in PreformattedNodes("block") :
              \A i \in 1..Len(heap[id].content) :
                  LET c == heap[heap[id].content[i]]
                      grouped == peek(GROUP_BEGIN, c.start)
                  IN  /\ Len(heap[id].content) = 1
                      /\ c.type = "pre"
                      /\ c.text = Between(c.contentStart, c.contentEnd)
                      /\ \/ isEOF(c.end)
                         \/ grouped /\ Between(c.end - 3, c.end) = GROUP_END
                         \/ ~grouped /\ Between(c.end - 1, c.end) = <<"\n">>
                                     /\ c.end - 1 > c.contentEnd

---------------------------------------------------------------------------
(* Inline modifiers without a closing tag *)

\* the inline modifiers MODIFIER made of the source below paragraph p and
\* read the content of
InlineModifiersOf(p) ==
    { id \in Reachable(heap, p) \ {p} :
        /\ heap[id].type = "inline" /\ heap[id].origin = 0
        /\ ~heap[id].marker /\ ~heap[id].generated /\ ~heap[id].shorthand }

\* node n ends with the closing tag: the tag is the last of its source
\* after the head, and no part of the tag belongs to its content
ClosedByTag(n) ==
    /\ n.end - 3 >= n.headEnd
    /\ peek(MODIFIER_INLINE_END_TAG, n.end - 3)
    /\ \A i \in 1..Len(n.content) : heap[n.content[i]].end <= n.end - 3

UnclosedOf(p) == { id \in InlineModifiersOf(p) : ~ClosedByTag(heap[id]) }

\* the paragraphs of the source that are free of shorthands
PlainParagraphs ==
    { p \in NodeIds :
        /\ heap[p].type = "paragraph" /\ heap[p].origin = 0
        /\ heap[p].end >= 0
        /\ \A id \in Reachable(heap, p) : ~heap[id].shorthand }

\* a node of the source begins at position q
BeginsAt(q) ==
    \E id \in NodeIds :
        heap[id].origin = 0 /\ heap[id].type # "root" /\ heap[id].start = q

\* C26: when parse has returned, every inline modifier of a paragraph that
\* was not closed by '[;]' ends where its paragraph ends, which is at the
\* end of the source, at a block or system modifier opener, at '--:', or
\* after a blank line; the UnclosedInlineModifier messages at that position
\* are as many as these modifiers, one of each name; and unless the source
\* or a group ends there the next node begins there, the whole source
\* having been read.
C26_Unclosed ==
    status = "done" =>
        /\ isEOF(pos)
        /\ \A p \in PlainParagraphs :
              LET e == heap[p].end
                  open == UnclosedOf(p)
                  at == MessagesAt("UnclosedInlineModifier", e)
              IN  /\ \A id \in open : heap[id].end = e
                  /\ open # {} =>
                        \/ isEOF(e)
                        \/ peek(MODIFIER_BLOCK_OPEN, e)
                        \/ peek(MODIFIER_SYSTEM_OPEN, e)
                        \/ peek(GROUP_END, e)
                        \/ e >= 2 /\ Between(e - 1, e) = <<"\n">>
                  /\ Cardinality(at) = Cardinality(open)
                  /\ \E f \in [at -> open] :
                        /\ \A i, j \in at : f[i] = f[j] => i = j
                        /\ \A i \in at :
                              messages[i].info = defs[heap[f[i]].mod].name
                  /\ open # {} /\ ~isEOF(e) /\ ~peek(GROUP_END, e) =>
                        BeginsAt(e)
        /\ CountCode("UnclosedInlineModifier") =
              Cardinality(UNION { UnclosedOf(p) : p \in PlainParagraphs })
           \/ \E id \in NodeIds : heap[id].shorthand

\* two nested inline modifiers are open after a blank line, where the next
\* paragraph begins
C26_Witness ==
    /\ status = "done"
    /\ src = UnclosedNested
    /\ \E p \in PlainParagraphs :
          /\ Cardinality(UnclosedOf(p)) = 2
          /\ heap[p].end = 11
          /\ Cardinality(MessagesAt("UnclosedInlineModifier", 11)) = 2
          /\ \E q \in PlainParagraphs : heap[q].start = 11

---------------------------------------------------------------------------
(* The arguments of a shorthand definition *)

\* the shorthand definitions of the source whose arguments were read
ShorthandDefinitions ==
    { id \in NodeIds :
        /\ heap[id].type = "system" /\ heap[id].origin = 0
        /\ defs[heap[id].mod].hooks \in {"inline-shorthand", "block-shorthand"}
        /\ heap[id].state.defined }

\* the codes of messages ms
Codes(ms) == { ms[i].code : i \in 1..Len(ms) }

\* the first argument after the name, at the place of an argument name,
\* that has the form '(slot)'; 0 if there is none
SlotArgument(n) ==
    LET at == { k \in 1..(Len(n.arguments) - 1) :
                  k % 2 = 1 /\ IsSlot(ArgValue(n, k)) }
    IN  IF at = {} THEN 0 ELSE CHOOSE k \in at : \A j \in at : k <= j

\* the (argument name, part literal) pairs of the arguments 1..last
PairsUpTo(n, last) ==
    [j \in 1..(last \div 2) |-> <<ArgValue(n, 2 * j - 1), ArgValue(n, 2 * j)>>]

\* what the claim says of the arguments of definition n of kind type, but
\* for the marker shorthands
DefineArgumentsRead(type, n) ==
    LET m == Len(n.arguments) - 1
        slot == SlotArgument(n)
        codes == Codes(n.state.msgs)
        hasPostfix == type = "inline" /\ slot > 0 /\ slot < m
                      /\ ArgValue(n, slot + 1) # <<>>
        read == IF hasPostfix THEN slot + 1 ELSE slot
    IN  /\ n.state.parts = PairsUpTo(n, IF slot > 0 THEN slot - 1 ELSE m)
        /\ n.state.slotDefined = (slot > 0)
        /\ slot > 0 => n.state.slotName = SlotOf(ArgValue(n, slot))
        /\ slot = 0 /\ m % 2 = 1 => "ArgumentCountMismatch" \in codes
        /\ type = "inline" /\ slot > 0 =>
              /\ slot = m => "ArgumentCountMismatch" \in codes
              /\ slot < m /\ ArgValue(n, slot + 1) = <<>> =>
                    "InvalidArgument" \in codes
              /\ hasPostfix =>
                    n.state.postfix =
                        [defined |-> TRUE, value |-> ArgValue(n, slot + 1)]
        /\ slot > 0 /\ m - read >= 2 => "ArgumentCountMismatch" \in codes
        /\ slot > 0 /\ m - read = 1 /\ ArgValue(n, m) # <<>> =>
              "InvalidArgument" \in codes
        /\ \/ slot = 0 /\ m % 2 = 0
           \/ /\ slot > 0
              /\ type = "inline" => hasPostfix
              /\ m - read = 0 \/ (m - read = 1 /\ ArgValue(n, m) = <<>>)
           \/ n.state.msgs # <<>>

\* a definition with no '(slot)', or with a final empty argument, is a
\* marker shorthand and is accepted without message
MarkerAccepted(n) ==
    LET m == Len(n.arguments) - 1
    IN  SlotArgument(n) = 0 \/ (m >= 1 /\ ArgValue(n, m) = <<>>) =>
            ~n.state.slotDefined /\ n.state.msgs = <<>>

\* C27: the arguments after the name of a shorthand definition are read as
\* (argument name, part literal) pairs until an argument of the form
\* '(slot)'; an argument name without a part literal records
\* ArgumentCountMismatch; for an inline shorthand the argument after
\* '(slot)' is the postfix (missing: ArgumentCountMismatch, empty:
\* InvalidArgument); at most one more argument follows and it is empty;
\* and a definition with no '(slot)', or with a final empty argument, is a
\* marker shorthand and has no message.
C27_DefineArguments ==
    \A id \in ShorthandDefinitions :
        LET type == IF defs[heap[id].mod].hooks = "inline-shorthand"
                    THEN "inline" ELSE "block"
        IN  DefineArgumentsRead(type, heap[id]) /\ MarkerAccepted(heap[id])

---------------------------------------------------------------------------
(* The re-parse limit without expand functions *)

\* no modifier of the document has a definition with an expand function
NothingExpands ==
    \A id \in NodeIds :
        IsModifier(heap[id]) => "expand" \notin HooksOf(defs[heap[id].mod])

\* C28: a document none of whose modifiers has a definition with an expand
\* function has no ReachedReparseLimit message, however deep its modifiers
\* are nested.
C28_NoLimitWithoutExpand ==
    NothingExpands => CountCode("ReachedReparseLimit") = 0

---------------------------------------------------------------------------
(* Notes *)

\* the occurrences of note-inline and of the note block in the source
NoteOccurrences ==
    { id \in ParsedModifiers :
        /\ heap[id].origin = 0
        /\ defs[heap[id].mod].hooks \in {"note-inline", "note-block"} }

\* the number of occurrences that begin before position p
NotesBefore(p) == Cardinality({ id \in NoteOccurrences : heap[id].start < p })

\* defs.findIndex((x) => x.name == name), from 0; -1 if there is none
findIndex(defined, name) ==
    IF \E i \in 1..Len(defined) : defined[i].name = name
    THEN (CHOOSE i \in 1..Len(defined) :
            /\ defined[i].name = name
            /\ \A j \in 1..(i - 1) : defined[j].name # name) - 1
    ELSE -1

\* C29: when parse has returned, the definitions list of the notes store
\* has exactly one entry for each note-inline and each note block of the
\* source, whatever it is nested in, in the order of the source; and for
\* every entry whose name no earlier entry has, the index a note marker of
\* that name finds is the index the footer gives the entry.
C29_OneEntryPerNote ==
    status = "done" =>
        /\ Len(notes) = Cardinality(NoteOccurrences)
        /\ \A id \in NoteOccurrences :
              /\ notes[NotesBefore(heap[id].start) + 1].start = heap[id].start
              /\ notes[NotesBefore(heap[id].start) + 1].name =
                    heap[id].state.name.value
        /\ \A i \in 1..Len(notes) :
              (\A j \in 1..(i - 1) : notes[j].start # notes[i].start) =>
                  /\ \A j \in 1..(i - 1) : notes[j].start < notes[i].start
                  /\ (\A j \in 1..(i - 1) : notes[j].name # notes[i].name) =>
                        findIndex(notes, notes[i].name) = i - 1

---------------------------------------------------------------------------
(* Fix suggestions *)

\* src.substring(a, b) and src.substring(a) of string s
substring(s, a, b) == SubSeq(s, a + 1, b)
substringFrom(s, a) == SubSeq(s, a + 1, Len(s))

\* apply of the fix of UnknownModifierMessage at pos: [src, newCursor]
UnknownModifierFix(p, s, cursor) ==
    [src |-> substring(s, 0, p) \o <<"\\">> \o substringFrom(s, p),
     cursor |-> IF cursor < p THEN cursor ELSE cursor + 1]

\* apply of the fix of AddThingMessage at pos with the text what
AddThingFix(p, what, s, cursor) ==
    [src |-> substring(s, 0, p) \o what \o substringFrom(s, p),
     cursor |-> IF cursor < p THEN cursor ELSE cursor + Len(what)]

\* apply of the fix of RemoveThingMessage at pos with length len
RemoveThingFix(p, len, s, cursor) ==
    [src |-> substring(s, 0, p) \o substringFrom(s, p + len),
     cursor |-> IF cursor < p + len /\ cursor >= p THEN p ELSE cursor - len]

\* the codes of the messages that have a fix suggestion
FixCodes ==
    { "UnknownModifier", "UnnecessaryNewline", "NewBlockShouldBeOnNewline",
      "ContentShouldBeOnNewline" }

\* m.fixes[0].apply(s, cursor)
apply(m, s, cursor) ==
    CASE m.code = "UnknownModifier" -> UnknownModifierFix(m.position, s, cursor)
      [] m.code = "UnnecessaryNewline" ->
            RemoveThingFix(m.position, m.length, s, cursor)
      [] m.code \in {"NewBlockShouldBeOnNewline", "ContentShouldBeOnNewline"} ->
            AddThingFix(m.position, <<"\n">>, s, cursor)

\* the host applies the fix of one message of the parse to the source,
\* with the cursor anywhere in it
ApplyFix ==
    /\ status = "done" /\ ~fixed.defined
    /\ \E i \in 1..Len(messages), cursor \in 0..Len(src) :
          /\ messages[i].code \in FixCodes
          /\ fixed' = [defined |-> TRUE, message |-> i, cursor |-> cursor,
                       src |-> apply(messages[i], src, cursor).src,
                       newCursor |-> apply(messages[i], src, cursor).cursor]
    /\ UNCHANGED <<src, pos, heap, defs, config, prefixes, blockStack,
                   inlineStack, referringStack, messages, groupDepth,
                   delayDepth, store, stack, ret, status, stripped, hookLog,
                   limitHits, failedRoots, loopAdvance, steps, configurations,
                   cxt, first, notes>>

\* sources with unknown modifiers, blocks that do not begin a line, content
\* on the line of its modifier, and runs of line breaks
FixItems ==
    { <<"[", ".", "u", "]">>, <<"[", ".", "a", "]">>, <<"[", ".", "p", "]">>,
      <<"[", "/", "u", "]">>, <<"t">>, <<"\n">>, <<"\n", "\n">> }

InitFixes == src \in Concatenations(FixItems) \cup Scenarios /\ Constructed

NextFixes == Next \/ ApplyFix

SpecFixes == InitFixes /\ [][NextFixes]_vars

\* the text a fix of message m inserts, and the number of characters it
\* removes
Inserted(m) ==
    CASE m.code = "UnknownModifier" -> <<"\\">>
      [] m.code = "UnnecessaryNewline" -> <<>>
      [] OTHER -> <<"\n">>
Removed(m) == IF m.code = "UnnecessaryNewline" THEN m.length ELSE 0

\* C30: the source a fix returns is the source with the text of the fix
\* inserted at the position of its message, or with length characters
\* removed there, and nothing else changed; a cursor before the position
\* is returned as it was; a cursor after the edit is shifted by the length
\* inserted or removed; and the cursor returned lies in the new source.
C30_FixApply ==
    fixed.defined =>
        LET m == messages[fixed.message]
            p == m.position
        IN  /\ fixed.src = SubSeq(src, 1, p) \o Inserted(m) \o
                           SubSeq(src, p + Removed(m) + 1, Len(src))
            /\ fixed.cursor < p => fixed.newCursor = fixed.cursor
            /\ fixed.cursor >= p + Removed(m) /\ fixed.cursor > p =>
                  fixed.newCursor =
                      fixed.cursor + Len(Inserted(m)) - Removed(m)
            /\ fixed.newCursor \in 0..Len(fixed.src)

====
